---- MODULE Spec2Model ----
(***************************************************************************)
(* Model of the level-0 byte-streaming IIIF server (server-level0-stream)  *)
(* of allmaps/iiif-server: the pyramid built by parseTiffPyramid, the      *)
(* request parsers, the tile matcher findJpegTileMatch, the JPEG stream    *)
(* assembler buildJpegParts and the two delivery paths of the handler.     *)
(*                                                                         *)
(* One behaviour is the handling of one request by a loaded server: Init   *)
(* draws the container (its geometry and bytes) and the arriving request,  *)
(* the actions are the handler's steps.                                    *)
(*   Spec        containers of every geometry within the bounds, holding   *)
(*               one fixed tile payload; every request of Requests.        *)
(*   SpecStream  one small container holding every tile payload and every  *)
(*               coding-table blob within the bounds; the requests that    *)
(*               reach the two delivery paths.                             *)
(***************************************************************************)
EXTENDS Integers, Sequences, FiniteSets, TLC

\* ------------------------------------------------------------------ bounds

\* image width and height range over 1..MaxDim
MaxDim == 4
\* native tile width and height range over 1..MaxTile
MaxTile == 2
\* a container holds 1..MaxLevels resolution levels
MaxLevels == 2
\* a tile payload holds 0..MaxTileBytes bytes
MaxTileBytes == 5
\* a coding-table blob holds 0..MaxTablesBytes bytes
MaxTablesBytes == 4
\* largest region dimension and requested dimension given to parseSize alone
MaxRegion == 21
\* directories of a file at offsets 1..MaxOffset (MaxOffset + 1 lies beyond
\* the end of the file), each with at most MaxSubIfds sub-directory pointers
MaxOffset == 2
MaxSubIfds == 2
\* largest image dimension and requested dimension, and largest number of
\* pyramid pages, given to the decode-resize server's renderImage
MaxPlanDim == 4
MaxPages == 3
\* a directory entry given to parseIfd alone holds 0..MaxCount values, and at
\* most MaxSet bytes of its value slot are not zero
MaxCount == 3
MaxSet == 2

\* ------------------------------------------------------- program constants

\* TIFF compression code of JPEG
JPEG == 7
\* marker bytes
XFF == 255
XD8 == 216
XD9 == 217
\* offset of the first tile in the modelled container layout (after the
\* 16-byte header read by parseTiffPyramid)
HeaderSize == 16

SOI == <<XFF, XD8>>
EOI == <<XFF, XD9>>

\* the byte values the assembler tells apart
Bytes == {XFF, XD8, XD9}

\* ----------------------------------------------------------------- helpers

Min(a, b) == IF a <= b THEN a ELSE b
Max(a, b) == IF a >= b THEN a ELSE b

\* Math.ceil(a / b) for b > 0
Ceil(a, b) == (a + b - 1) \div b

\* the exact quotient p / q rounded to the nearest integer, halves up,
\* for p >= 0, q > 0
Round(p, q) == (2 * p + q) \div (2 * q)

RECURSIVE Pow2(_)
Pow2(n) == IF n = 0 THEN 1 ELSE 2 * Pow2(n - 1)

\* all byte strings of length 0..n
RECURSIVE ByteStrings(_)
ByteStrings(n) ==
  IF n = 0 THEN {<<>>}
  ELSE LET shorter == ByteStrings(n - 1)
       IN  shorter \cup {Append(s, b) : s \in {t \in shorter : Len(t) = n - 1}, b \in Bytes}

\* buf.subarray(from, to) with 0-based from (inclusive) and to (exclusive)
Subarray(buf, from, to) == SubSeq(buf, from + 1, to)

\* ------------------------------------------- double-precision arithmetic
\* JavaScript numbers are IEEE-754 doubles: every result is the exact value
\* rounded to 53 significant binary digits, ties to the even significand.  A
\* positive double is modelled as [limbs, top]: limbs are its digits in base
\* 2^15, most significant first, the first one nonzero and of weight
\* Base^top.  Operands (image dimensions) are below Base.

\* number of significant binary digits of a double
Precision == 53
BaseBits == 15
Base == Pow2(BaseBits)
\* enough fraction limbs to hold Precision digits and the digit after them
FractionLength == (Precision + 1) \div BaseBits + 2

RECURSIVE BitLength(_)
BitLength(n) == IF n = 0 THEN 0 ELSE 1 + BitLength(n \div 2)

\* the base-Base digits of n >= 0, most significant first
RECURSIVE Limbs(_)
Limbs(n) == IF n = 0 THEN <<>> ELSE Append(Limbs(n \div Base), n % Base)

RECURSIVE FromLimbs(_)
FromLimbs(l) ==
  IF l = <<>> THEN 0 ELSE Base * FromLimbs(SubSeq(l, 1, Len(l) - 1)) + l[Len(l)]

Reverse(l) == [i \in 1..Len(l) |-> l[Len(l) + 1 - i]]

\* the first n base-Base digits of the fraction r / d, for 0 <= r < d
RECURSIVE Fraction(_, _, _)
Fraction(r, d, n) ==
  IF n = 0 THEN <<>>
  ELSE <<(r * Base) \div d>> \o Fraction((r * Base) % d, d, n - 1)

\* what is left of r / d after its first n digits
RECURSIVE Remainder(_, _, _)
Remainder(r, d, n) ==
  IF n = 0 \/ r = 0 THEN r ELSE Remainder((r * Base) % d, d, n - 1)

RECURSIVE LeadingZeros(_)
LeadingZeros(l) ==
  IF l = <<>> \/ l[1] # 0 THEN 0 ELSE 1 + LeadingZeros(Tail(l))

\* the digits of FromLimbs(l) + v, v added to the last limb
RECURSIVE AddLimbs(_, _)
AddLimbs(l, v) ==
  IF l = <<>> THEN Limbs(v)
  ELSE LET t == l[Len(l)] + v
       IN  Reverse(<<t % Base>> \o Reverse(AddLimbs(SubSeq(l, 1, Len(l) - 1), t \div Base)))

\* The double nearest to the exact value with digits l (first limb nonzero, of
\* weight Base^top), followed by further nonzero digits iff sticky.
RoundToDouble(l, top, sticky) ==
  LET t == BitLength(l[1])
      \* the last binary digit kept lies a whole limbs and b digits after l[1]
      a == (Precision - t) \div BaseBits
      b == (Precision - t) % BaseBits
      limb(i) == IF i <= Len(l) THEN l[i] ELSE 0
      c == limb(a + 2)
      unit == Pow2(BaseBits - b)
      kept == [i \in 1..(a + 2) |-> IF i <= a + 1 THEN limb(i) ELSE c - (c % unit)]
      guard == (c % unit) >= unit \div 2
      rest == \/ sticky
              \/ (c % (unit \div 2)) # 0
              \/ \E i \in (a + 3)..Len(l) : l[i] # 0
      odd == IF b = 0 THEN limb(a + 1) % 2 = 1 ELSE (c \div unit) % 2 = 1
      up == AddLimbs(kept, unit)
  IN  IF guard /\ (rest \/ odd)
        THEN [limbs |-> up, top |-> top + Len(up) - Len(kept)]
        ELSE [limbs |-> kept, top |-> top]

\* the double w / d for integers w >= 1, d >= 1
Divide(w, d) ==
  LET whole == Limbs(w \div d)
      all == whole \o Fraction(w % d, d, FractionLength)
      z == LeadingZeros(all)
  IN  RoundToDouble(SubSeq(all, z + 1, Len(all)), Len(whole) - 1 - z,
                    Remainder(w % d, d, FractionLength) # 0)

\* the digits of FromLimbs(l) * k + carry, least significant first
RECURSIVE MultiplyLimbs(_, _, _)
MultiplyLimbs(l, k, carry) ==
  IF l = <<>> THEN Reverse(Limbs(carry))
  ELSE LET t == l[Len(l)] * k + carry
       IN  <<t % Base>> \o MultiplyLimbs(SubSeq(l, 1, Len(l) - 1), k, t \div Base)

\* the double k * x for an integer k >= 1 and a double x
Multiply(k, x) ==
  LET product == Reverse(MultiplyLimbs(x.limbs, k, 0))
  IN  RoundToDouble(product, x.top + Len(product) - Len(x.limbs), FALSE)

\* Math.round(x) for a double 0 < x < 2^30: halves round up
MathRound(x) ==
  LET limb(i) == IF 1 <= i /\ i <= Len(x.limbs) THEN x.limbs[i] ELSE 0
      whole == FromLimbs([i \in 1..(x.top + 1) |-> limb(i)])
  IN  IF limb(x.top + 2) >= Base \div 2 THEN whole + 1 ELSE whole

\* ------------------------------------------------ container and pyramid

\* compression codes a level of a container may carry: JPEG and one other
\* (1, uncompressed)
Compressions == {JPEG, 1}

NoTables == [present |-> FALSE, bytes |-> <<>>]
Tables(b) == [present |-> TRUE, bytes |-> b]

\* The candidate Level pushed for one directory (pageIfds.push): the values
\* of tags 256, 257, 322, 323, 259 and the arrays of tags 324, 325, 347.
PageIfd(w, h, tw, th, c, offs, counts, tables) ==
  [width |-> w, height |-> h, tileWidth |-> tw, tileHeight |-> th,
   compression |-> c, tileOffsets |-> offs, tileByteCounts |-> counts,
   jpegTables |-> tables]

\* pageIfds.sort((a, b) => b.width - a.width): stable, descending width
RECURSIVE InsertByWidth(_, _)
InsertByWidth(sorted, p) ==
  IF sorted = <<>> THEN <<p>>
  ELSE IF Head(sorted).width >= p.width
       THEN <<Head(sorted)>> \o InsertByWidth(Tail(sorted), p)
       ELSE <<p>> \o sorted

\* mutant: the levels stay in the order of the file
SortByWidthDesc_FileOrder(ifds) == ifds

RECURSIVE SortByWidthDesc(_)
SortByWidthDesc(ifds) ==
  IF ifds = <<>> THEN <<>>
  ELSE InsertByWidth(SortByWidthDesc(SubSeq(ifds, 1, Len(ifds) - 1)), ifds[Len(ifds)])

\* pageIfds.map((p, idx) => ...): rank, scale and tile grid of a level
MakePage(p, idx) ==
  [width |-> p.width, height |-> p.height,
   tileWidth |-> p.tileWidth, tileHeight |-> p.tileHeight,
   compression |-> p.compression,
   tileOffsets |-> p.tileOffsets, tileByteCounts |-> p.tileByteCounts,
   jpegTables |-> p.jpegTables,
   level |-> idx, scale |-> Pow2(idx),
   tilesAcross |-> Ceil(p.width, p.tileWidth),
   tilesDown |-> Ceil(p.height, p.tileHeight)]

\* The tail of parseTiffPyramid: sort the candidate levels, rank them and
\* return the Pyramid (at least one candidate level is required).
BuildPyramid(pageIfds) ==
  LET sorted == SortByWidthDesc(pageIfds)
  IN  [width |-> sorted[1].width, height |-> sorted[1].height,
       pages |-> [i \in 1..Len(sorted) |-> MakePage(sorted[i], i - 1)]]

\* sources.get(id) of an identifier the catalog does not hold
NoSource == [width |-> 0, height |-> 0, pages |-> <<>>]

\* A container file as parseTiffPyramid meets it: the structural error that
\* reading it raises (error # ""), or the candidate levels pushed to pageIfds
\* in the order the directories are visited.
Container(error, ifds) == [error |-> error, ifds |-> ifds]

\* the outcome of parseTiffPyramid: the Pyramid, or the exception thrown
Parsed(pyramid) == [ok |-> TRUE, error |-> "", pyramid |-> pyramid]
ParseError(message) == [ok |-> FALSE, error |-> message, pyramid |-> NoSource]

parseTiffPyramid(file) ==
  IF file.error # "" THEN ParseError(file.error)
  ELSE IF Len(file.ifds) = 0 THEN ParseError("No tiled pages found in TIFF")
  ELSE Parsed(BuildPyramid(file.ifds))

\* --- the containers of the model: what the container builder writes

\* The extent of resolution level idx of an image dimension d: the builder
\* halves per level, rounding down ("floor") or up ("ceil"), and never below
\* one pixel.
LevelDim(d, idx, rounding) ==
  IF rounding = "floor" THEN Max(1, d \div Pow2(idx)) ELSE Ceil(d, Pow2(idx))

\* The tiles of a level are stored back to back: tile i of a level whose
\* first tile is at base starts at base + i * count.
TileOffsetsAt(base, n, count) == [i \in 1..n |-> base + (i - 1) * count]

\* The directories of a container with the given level geometries
\* geoms[i] = <<width, height, compression>>, every tile holding count bytes.
RECURSIVE LayOut(_, _, _, _, _, _)
LayOut(geoms, tw, th, count, tables, base) ==
  IF geoms = <<>> THEN <<>>
  ELSE LET g == Head(geoms)
           n == Ceil(g[1], tw) * Ceil(g[2], th)
       IN  <<PageIfd(g[1], g[2], tw, th, g[3],
                     TileOffsetsAt(base, n, count),
                     [i \in 1..n |-> count], tables)>>
           \o LayOut(Tail(geoms), tw, th, count, tables, base + n * count)

\* the compression codes of n levels
RECURSIVE CompressionSeqs(_)
CompressionSeqs(n) ==
  IF n = 0 THEN {<<>>}
  ELSE {Append(cs, c) : cs \in CompressionSeqs(n - 1), c \in Compressions}

\* level geometries of an image w x h with Len(cs) levels, highest resolution
\* first
LevelGeoms(w, h, rounding, cs) ==
  [i \in 1..Len(cs) |->
     <<LevelDim(w, i - 1, rounding), LevelDim(h, i - 1, rounding), cs[i]>>]

\* every Pyramid parseTiffPyramid builds from a container of an image within
\* the bounds whose tiles all hold the payload tileBytes
Pyramids(tileBytes, tables) ==
  {BuildPyramid(LayOut(LevelGeoms(w, h, rounding, cs), tw, th,
                       Len(tileBytes), tables, HeaderSize)) :
     w \in 1..MaxDim, h \in 1..MaxDim, rounding \in {"floor", "ceil"},
     cs \in UNION {CompressionSeqs(n) : n \in 1..MaxLevels},
     tw \in 1..MaxTile, th \in 1..MaxTile}

\* --------------------------------------------------------- request parsers

\* A region as written in the URL: "full", four digit strings x,y,w,h
\* (kind "px"), or a string of no recognized form (kind "bad").
RegionRaw(kind, x, y, w, h) == [kind |-> kind, x |-> x, y |-> y, w |-> w, h |-> h]
\* A size as written in the URL: "full", "w,h" ("wh"), "w," ("w"), ",h" ("h"),
\* or a string of no recognized form ("bad").
SizeRaw(kind, w, h) == [kind |-> kind, w |-> w, h |-> h]

\* a parser's exception
Thrown(message) ==
  [ok |-> FALSE, error |-> message, x |-> 0, y |-> 0, w |-> 0, h |-> 0, isFull |-> FALSE]
Region(x, y, w, h, isFull) ==
  [ok |-> TRUE, error |-> "", x |-> x, y |-> y, w |-> w, h |-> h, isFull |-> isFull]
Size(w, h) == Region(0, 0, w, h, FALSE)

parseRegion(raw, imageWidth, imageHeight) ==
  IF raw.kind = "full" THEN Region(0, 0, imageWidth, imageHeight, TRUE)
  ELSE IF raw.kind # "px"
    THEN Thrown("Only region=full or pixel region x,y,w,h is supported")
  ELSE IF raw.w <= 0 \/ raw.h <= 0 THEN Thrown("Invalid region dimensions")
  ELSE IF raw.x >= imageWidth \/ raw.y >= imageHeight THEN Thrown("Region out of bounds")
  ELSE Region(raw.x, raw.y,
              Min(raw.w, imageWidth - raw.x), Min(raw.h, imageHeight - raw.y), FALSE)

\* Math.round(k * (w / d)) in double arithmetic, tabulated for the operands
\* that occur
Scaled ==
  [k \in 1..MaxRegion, w \in 1..MaxRegion, d \in 1..MaxRegion |->
     MathRound(Multiply(k, Divide(w, d)))]

parseSize(raw, regionW, regionH) ==
  IF raw.kind = "full" THEN Size(regionW, regionH)
  ELSE IF raw.kind = "wh" THEN Size(raw.w, raw.h)
  ELSE IF raw.kind = "w"
    THEN IF raw.w <= 0 THEN Thrown("Invalid size")
         ELSE Size(raw.w, Max(1, Scaled[regionH, raw.w, regionW]))
  ELSE IF raw.kind = "h"
    THEN IF raw.h <= 0 THEN Thrown("Invalid size")
         ELSE Size(Max(1, Scaled[regionW, raw.h, regionH]), raw.h)
  ELSE Thrown("Only full, w,h, w, or ,h size forms are supported")

parseSizeMode(raw) ==
  CASE raw.kind = "full" -> "full"
    [] raw.kind = "wh" -> "exact"
    [] raw.kind = "w" -> "w"
    [] raw.kind = "h" -> "h"
    [] OTHER -> "unknown"

\* ------------------------------------------------------------ tile matcher

sizeMatches(expectedW, expectedH, size, sizeMode) ==
  IF sizeMode = "w" THEN size.w = expectedW
  ELSE IF sizeMode = "h" THEN size.h = expectedH
  ELSE size.w = expectedW /\ size.h = expectedH

\* findJpegTileMatch's result null
NoMatch ==
  [found |-> FALSE, pageIdx |-> 0, tileIndex |-> 0, offset |-> 0, byteCount |-> 0,
   outWidth |-> 0, outHeight |-> 0]
\* a match descriptor; pageIdx is the position of match.page in source.pages
Match(pageIdx, tileIndex, offset, byteCount, outWidth, outHeight) ==
  [found |-> TRUE, pageIdx |-> pageIdx, tileIndex |-> tileIndex, offset |-> offset,
   byteCount |-> byteCount, outWidth |-> outWidth, outHeight |-> outHeight]

\* mutant: a level stored as several tiles is accepted for the full region
FullPageMatches_AnyGrid(page, size, sizeMode) ==
  /\ sizeMatches(page.width, page.height, size, sizeMode)
  /\ page.compression = JPEG
  /\ Len(page.tileOffsets) # 0 /\ Len(page.tileByteCounts) # 0

\* the body of the loop over source.pages for a full region: TRUE when the
\* page is returned, FALSE when the loop continues
FullPageMatches(page, size, sizeMode) ==
  /\ sizeMatches(page.width, page.height, size, sizeMode)
  /\ page.compression = JPEG
  /\ page.tilesAcross = 1 /\ page.tilesDown = 1
  /\ Len(page.tileOffsets) # 0 /\ Len(page.tileByteCounts) # 0

\* the quantities the loop over source.pages computes for a numeric region
scaledTileW(page) == page.tileWidth * page.scale
scaledTileH(page) == page.tileHeight * page.scale
\* mutant: the region width is not compared with the tile's extent
expectedRegionW_Unchecked(source, page, region) == region.w
expectedRegionW(source, page, region) == Min(scaledTileW(page), source.width - region.x)
expectedRegionH(source, page, region) == Min(scaledTileH(page), source.height - region.y)
\* mutant: the remaining width is rounded down instead of up
expectedSizeW_Floor(source, page, region) ==
  IF region.x + scaledTileW(page) > source.width
  THEN (source.width - region.x) \div page.scale ELSE page.tileWidth
expectedSizeW(source, page, region) ==
  IF region.x + scaledTileW(page) > source.width
  THEN Ceil(source.width - region.x, page.scale) ELSE page.tileWidth
expectedSizeH(source, page, region) ==
  IF region.y + scaledTileH(page) > source.height
  THEN Ceil(source.height - region.y, page.scale) ELSE page.tileHeight
\* tileX, tileY and tileIndex of an aligned region
tileX(page, region) == region.x \div scaledTileW(page)
tileY(page, region) == region.y \div scaledTileH(page)
\* mutant: the row is multiplied by the number of rows instead of columns
tileIndexOf_RowStride(page, region) ==
  tileY(page, region) * page.tilesDown + tileX(page, region)
tileIndexOf(page, region) == tileY(page, region) * page.tilesAcross + tileX(page, region)

\* mutant: the alignment of the region's top-left is not required
TilePageMatches_Unaligned(source, page, region, size, sizeMode) ==
  /\ region.w = expectedRegionW(source, page, region)
  /\ region.h = expectedRegionH(source, page, region)
  /\ sizeMatches(expectedSizeW(source, page, region),
                 expectedSizeH(source, page, region), size, sizeMode)
  /\ tileIndexOf(page, region) >= 0
  /\ tileIndexOf(page, region) < Len(page.tileOffsets)
  /\ page.compression = JPEG

\* the body of the loop over source.pages for a numeric region: TRUE when
\* the page is returned, FALSE when the loop continues
TilePageMatches(source, page, region, size, sizeMode) ==
  /\ region.x % scaledTileW(page) = 0 /\ region.y % scaledTileH(page) = 0
  /\ region.w = expectedRegionW(source, page, region)
  /\ region.h = expectedRegionH(source, page, region)
  /\ sizeMatches(expectedSizeW(source, page, region),
                 expectedSizeH(source, page, region), size, sizeMode)
  /\ tileIndexOf(page, region) >= 0
  /\ tileIndexOf(page, region) < Len(page.tileOffsets)
  /\ page.compression = JPEG

\* the value of an array element that does not exist (no table of the model
\* holds a negative entry)
Undefined == -1
\* arr[i] for an index i counted from 0
At(arr, i) == IF i + 1 \in 1..Len(arr) THEN arr[i + 1] ELSE Undefined

\* what the loops return when page position i is the one returned
MatchAt(source, region, i) ==
  LET page == source.pages[i]
  IN  IF region.isFull
      THEN Match(i, 0, At(page.tileOffsets, 0), At(page.tileByteCounts, 0),
                 page.width, page.height)
      ELSE Match(i, tileIndexOf(page, region),
                 At(page.tileOffsets, tileIndexOf(page, region)),
                 At(page.tileByteCounts, tileIndexOf(page, region)),
                 expectedSizeW(source, page, region),
                 expectedSizeH(source, page, region))

\* mutant: the loops do not stop at the first page that matches, the last wins
RECURSIVE FindFrom_LastWins(_, _, _, _, _)
FindFrom_LastWins(source, region, size, sizeMode, i) ==
  IF i > Len(source.pages) THEN NoMatch
  ELSE LET later == FindFrom_LastWins(source, region, size, sizeMode, i + 1)
           here == IF region.isFull
                   THEN FullPageMatches(source.pages[i], size, sizeMode)
                   ELSE TilePageMatches(source, source.pages[i], region, size, sizeMode)
       IN  IF later.found THEN later
           ELSE IF here THEN MatchAt(source, region, i) ELSE NoMatch

\* the two loops of findJpegTileMatch from page position i on
RECURSIVE FindFrom(_, _, _, _, _)
FindFrom(source, region, size, sizeMode, i) ==
  IF i > Len(source.pages) THEN NoMatch
  ELSE IF region.isFull
    THEN IF FullPageMatches(source.pages[i], size, sizeMode)
         THEN MatchAt(source, region, i)
         ELSE FindFrom(source, region, size, sizeMode, i + 1)
  ELSE IF TilePageMatches(source, source.pages[i], region, size, sizeMode)
         THEN MatchAt(source, region, i)
         ELSE FindFrom(source, region, size, sizeMode, i + 1)

findJpegTileMatch(source, region, size, sizeMode) ==
  FindFrom(source, region, size, sizeMode, 1)

\* mutant: only the width is compared with the native tile size
needsEdgeTranscode_WidthOnly(source, match) ==
  match.outWidth # source.pages[match.pageIdx].tileWidth
needsEdgeTranscode(source, match) ==
  \/ match.outWidth # source.pages[match.pageIdx].tileWidth
  \/ match.outHeight # source.pages[match.pageIdx].tileHeight

edgeCropRect(match) ==
  [left |-> 0, top |-> 0, width |-> match.outWidth, height |-> match.outHeight]

\* --------------------------------------------------------- stream assembler

hasMarker(buf, marker, atStart) ==
  IF Len(buf) < 2 THEN FALSE
  ELSE IF atStart THEN buf[1] = marker[1] /\ buf[2] = marker[2]
  ELSE buf[Len(buf) - 1] = marker[1] /\ buf[Len(buf)] = marker[2]

NoParts == [prefix |-> <<>>, skipStart |-> 0, skipEnd |-> 0, suffix |-> <<>>]

\* mutant: the end marker of the coding tables is kept in the prefix
buildJpegParts_KeepTablesEoi(tileFirst2, tileLast2, jpegTables) ==
  IF ~jpegTables.present \/ Len(jpegTables.bytes) < 2 THEN NoParts
  ELSE [prefix |-> jpegTables.bytes,
        skipStart |-> IF hasMarker(tileFirst2, SOI, TRUE) THEN 2 ELSE 0,
        skipEnd |-> IF hasMarker(tileLast2, EOI, TRUE) THEN 2 ELSE 0,
        suffix |-> EOI]

buildJpegParts(tileFirst2, tileLast2, jpegTables) ==
  LET tileHasSoi == hasMarker(tileFirst2, SOI, TRUE)
      tileHasEoi == hasMarker(tileLast2, EOI, TRUE)
  IN  IF ~jpegTables.present \/ Len(jpegTables.bytes) < 2 THEN NoParts
      ELSE LET tablesHasEoi ==
                 hasMarker(Subarray(jpegTables.bytes, Len(jpegTables.bytes) - 2,
                                    Len(jpegTables.bytes)), EOI, TRUE)
           IN  [prefix |-> IF tablesHasEoi
                           THEN Subarray(jpegTables.bytes, 0, Len(jpegTables.bytes) - 2)
                           ELSE jpegTables.bytes,
                skipStart |-> IF tileHasSoi THEN 2 ELSE 0,
                skipEnd |-> IF tileHasEoi THEN 2 ELSE 0,
                suffix |-> EOI]

\* readExactly(fd, position, length) within the byte range of the matched
\* tile, whose bytes in the file are data and whose first byte is at offset
readExactly(data, offset, position, length) ==
  Subarray(data, position - offset, position - offset + length)

\* the reads both delivery paths start with
tileFirst2Of(data, match) ==
  readExactly(data, match.offset, match.offset, Min(2, match.byteCount))
tileLast2Of(data, match) ==
  IF match.byteCount >= 2
  THEN readExactly(data, match.offset, match.offset + match.byteCount - 2, 2)
  ELSE <<>>
partsOf(source, data, match) ==
  buildJpegParts(tileFirst2Of(data, match), tileLast2Of(data, match),
                 source.pages[match.pageIdx].jpegTables)
tileStartOf(prts, match) == match.offset + prts.skipStart
tileLengthOf(prts, match) == Max(0, match.byteCount - prts.skipStart - prts.skipEnd)
\* mutant: the stripped markers are not subtracted from the declared length
contentLengthOf_Unstripped(prts, match) ==
  Len(prts.prefix) + match.byteCount + Len(prts.suffix)
contentLengthOf(prts, match) ==
  Len(prts.prefix) + tileLengthOf(prts, match) + Len(prts.suffix)

\* readJpegTileBuffer without its I/O failures
readJpegTileBuffer(source, data, match) ==
  LET prts == partsOf(source, data, match)
      tileLength == tileLengthOf(prts, match)
      tileData == IF tileLength > 0
                  THEN readExactly(data, match.offset, tileStartOf(prts, match), tileLength)
                  ELSE <<>>
  IN  prts.prefix \o tileData \o prts.suffix

\* ------------------------------------------------------------------- state

VARIABLES
  source,     \* the Pyramid of the one catalogued identifier (sources.get(id))
  tile,       \* the bytes the container file holds in the range of every tile
  req,        \* the request being handled (req.url, taken apart)
  pc,         \* where the handler is: idle, transcode, stream, streaming, done
  region,     \* parseRegion's result
  size,       \* parseSize's result
  sizeMode,   \* parseSizeMode's result
  match,      \* findJpegTileMatch's result
  path,       \* the delivery functions called: subset of {"stream", "transcode"}
  parts,      \* streamJpegTile: buildJpegParts' result
  head,       \* the response head written by res.writeHead (status 0: none yet)
  msg,        \* the text or document sent by fail, redirect and sendJson
  body,       \* the image bytes written to the response
  crop,       \* sendTranscodedEdgeTile: the rectangle passed to extract
  rawTile,    \* sendTranscodedEdgeTile: the reconstructed tile passed to the codec
  tilePos,    \* streamJpegTile: the file position tileStream reads next
  out,        \* state of the PassThrough piped into res: none, open, ended, destroyed
  unhandled,  \* an exception escaped the handler (an unhandled rejection)
  res,        \* the response stream: open until res.end() is called, then ended
  info,       \* the capability document sent by sendJson (NoInfo: none)
  dir,        \* loadSources: the entries of the containers directory and the next to visit
  sources,    \* loadSources: the catalog, a map from identifier to Pyramid
  phase,      \* main: loading, serving (listening), or exited (process.exit(1))
  peer        \* the state of a second handler, suspended at an await

\* the state of one running handler
handlerVars == <<req, pc, region, size, sizeMode, match, path, parts,
                 head, msg, body, crop, rawTile, tilePos, out, unhandled, res, info>>
\* the state outside the running handler
hostVars == <<dir, sources, phase, peer>>

\* The state of one call of a function taken on its own.
VARIABLES
  tiff,       \* parseTiffPyramid: the directories of the file and its first offset
  queue,      \* parseTiffPyramid: the directory offsets still to look at
  visited,    \* parseTiffPyramid: the directory offsets parsed
  pageIfds,   \* parseTiffPyramid: the candidate levels found, in order
  parses      \* how many times parseIfd was called on each offset

traverseVars == <<tiff, queue, visited, pageIfds, parses>>

VARIABLES
  record,     \* renderImage: the catalog record of the image (width, height, pages)
  fmt,        \* renderImage: the output format
  plan,       \* renderImage: what buildOperationPlan returned
  attempts,   \* renderImage: the calls of render so far, each with its outcome
  rendered    \* renderImage: what the call returned or threw

renderVars == <<record, fmt, plan, attempts, rendered>>

VARIABLES
  fd,         \* parseIfd: the bytes of the open file
  parsedIfd,  \* parseIfd: what the call returned or threw
  field       \* readField, readNumericField: the tag asked for, and what the call
              \* returned or threw

ifdVars == <<fd, parsedIfd, field>>
unitVars == <<traverseVars, renderVars, ifdVars>>
vars == <<source, tile, handlerVars, hostVars, unitVars>>


NoHead == [status |-> 0, contentLength |-> -1]
\* the head of a text or JSON response (its length is not modelled)
Head0(status) == [status |-> status, contentLength |-> -1]
\* the head of an image response
ImageHead(contentLength) == [status |-> 200, contentLength |-> contentLength]
NoCrop == [left |-> 0, top |-> 0, width |-> 0, height |-> 0]
\* no second handler
NoPeer == <<>>

\* no function is being called on its own
NoTiff == [first |-> 0, dirs |-> <<>>]
NoRecord == [width |-> 0, height |-> 0, pages |-> 0]
NoPlan == [page |-> 0, extract |-> NoCrop]
NotRendered == [status |-> "none", contentType |-> ""]
NoIfd == [status |-> "none", error |-> "", entries |-> <<>>, nextOffset |-> 0]
NoField == [tag |-> 0, status |-> "none", error |-> "", raw |-> <<>>, values |-> <<>>]
NoUnit ==
  /\ tiff = NoTiff /\ queue = <<>> /\ visited = {} /\ pageIfds = <<>> /\ parses = <<>>
  /\ record = NoRecord /\ fmt = "" /\ plan = NoPlan /\ attempts = <<>>
  /\ rendered = NotRendered
  /\ fd = <<>> /\ parsedIfd = NoIfd /\ field = NoField

\* ----------------------------------------------------- capability document

\* buildSizes' loop: the pages kept, in page order, without a page whose
\* width x height an earlier kept page has
RECURSIVE SizesFrom(_, _, _)
SizesFrom(pages, i, seen) ==
  IF i > Len(pages) THEN <<>>
  ELSE LET page == pages[i]
           key == <<page.width, page.height>>
       IN  IF page.tilesAcross # 1 \/ page.tilesDown # 1 \/ page.compression # JPEG
             THEN SizesFrom(pages, i + 1, seen)
           ELSE IF key \in seen THEN SizesFrom(pages, i + 1, seen)
           ELSE <<[width |-> page.width, height |-> page.height]>>
                  \o SizesFrom(pages, i + 1, seen \cup {key})

buildSizes(src) == SortByWidthDesc(SizesFrom(src.pages, 1, {}))

\* the fields of the capability document that depend on the Pyramid; the
\* documents of the two versions differ in constant fields and in the name
\* of the id field only
InfoJson(version, src) ==
  [version |-> version, width |-> src.width, height |-> src.height,
   sizes |-> buildSizes(src),
   tileWidth |-> src.pages[1].tileWidth, tileHeight |-> src.pages[1].tileHeight,
   scaleFactors |-> [i \in 1..Len(src.pages) |-> src.pages[i].scale]]
infoJsonV2(src) == InfoJson(2, src)
infoJsonV3(src) == InfoJson(3, src)
NoInfo == [version |-> 0]

\* ---------------------------------------------------------------- requests

Request(prefix, kind, id, regionRaw, sizeRaw, rotation, quality) ==
  [prefix |-> prefix, kind |-> kind, id |-> id, region |-> regionRaw,
   size |-> sizeRaw, rotation |-> rotation, quality |-> quality]

\* {prefix}/{identifier}/{region}/{size}/0/default.jpg for the known identifier
TileRequest(regionRaw, sizeRaw) ==
  Request("/iiif/3", "tile", "known", regionRaw, sizeRaw, "0", "default.jpg")

\* the pixel regions written x,y,w,h that start inside the image or on its
\* right or bottom border and extend at most one pixel beyond it
PixelRegions(width, height) ==
  {r \in {RegionRaw("px", x, y, w, h) :
             x \in 0..width, y \in 0..height, w \in 1..(width + 1), h \in 1..(height + 1)} :
     r.x + r.w <= width + 1 /\ r.y + r.h <= height + 1}

\* the output widths and heights a size is written with
SizeDims == 1..MaxTile
Sizes ==
  {SizeRaw("full", 0, 0)}
  \cup {SizeRaw("wh", w, h) : w \in SizeDims, h \in SizeDims}
  \cup {SizeRaw("w", w, 0) : w \in SizeDims}
  \cup {SizeRaw("h", 0, h) : h \in SizeDims}

FullRaw == RegionRaw("full", 0, 0, 0, 0)

TileRequests(width, height) ==
  {TileRequest(r, s) : r \in PixelRegions(width, height) \cup {FullRaw}, s \in Sizes}

\* requests of the other path shapes, and tile requests whose region, size,
\* rotation or quality the handler does not accept
OtherRequests ==
  {Request(p, k, i, FullRaw, SizeRaw("full", 0, 0), "0", "default.jpg") :
     p \in {"", "/iiif/2", "/iiif/3"},
     k \in {"root", "none", "bare", "info", "tile", "other"},
     i \in {"known", "unknown"}}
  \cup {Request("/iiif/2", "tile", "known", FullRaw, SizeRaw("full", 0, 0), rot, q) :
          rot \in {"0", "90"}, q \in {"default.jpg", "default.jpeg", "color.png"}}
  \cup {Request("/iiif/2", "tile", "known", r, s, "0", "default.jpg") :
          r \in {FullRaw, RegionRaw("bad", 0, 0, 0, 0), RegionRaw("px", 0, 0, 0, 1),
                 RegionRaw("px", 0, 0, 1, 0), RegionRaw("px", 0, 0, 1, 1)},
          s \in {SizeRaw("bad", 0, 0), SizeRaw("w", 0, 0), SizeRaw("h", 0, 0),
                 SizeRaw("wh", 0, 0), SizeRaw("wh", 1, 1)}}

Requests(width, height) == TileRequests(width, height) \cup OtherRequests

\* ----------------------------------------------------------------- handler

\* What the handler's synchronous part decides for a request: the response
\* it sends at once (status # 0) or the delivery path it awaits (next).
Outcome(status, message, rg, sz, mode, m, next) ==
  [status |-> status, msg |-> message, region |-> rg, size |-> sz,
   sizeMode |-> mode, match |-> m, next |-> next]
Reply(status, message) ==
  Outcome(status, message, Thrown(""), Thrown(""), "unknown", NoMatch, "done")

\* mutant: a request nothing matches is answered like an internal failure
HandleTile_NoMatchIsFailure(src, r) ==
  LET rg == parseRegion(r.region, src.width, src.height)
      sz == parseSize(r.size, rg.w, rg.h)
      mode == parseSizeMode(r.size)
      m == findJpegTileMatch(src, rg, sz, mode)
  IN  IF ~rg.ok THEN Outcome(500, rg.error, rg, Thrown(""), "unknown", NoMatch, "done")
      ELSE IF ~sz.ok THEN Outcome(500, sz.error, rg, sz, "unknown", NoMatch, "done")
      ELSE IF ~m.found THEN Outcome(500, "Internal error", rg, sz, mode, m, "done")
      ELSE Outcome(0, "", rg, sz, mode, m,
                   IF needsEdgeTranscode(src, m) THEN "transcode" ELSE "stream")

\* the handler from parseRegion on (a tile request with rotation 0 and
\* quality default.jpg for a catalogued identifier)
HandleTile(src, r) ==
  LET rg == parseRegion(r.region, src.width, src.height)
      sz == parseSize(r.size, rg.w, rg.h)
      mode == parseSizeMode(r.size)
      m == findJpegTileMatch(src, rg, sz, mode)
  IN  IF ~rg.ok THEN Outcome(500, rg.error, rg, Thrown(""), "unknown", NoMatch, "done")
      ELSE IF ~sz.ok THEN Outcome(500, sz.error, rg, sz, "unknown", NoMatch, "done")
      ELSE IF ~m.found
        THEN Outcome(400,
                     IF rg.isFull
                     THEN "Unsupported full size for passthrough. Use one of info.json sizes that map to a single native tile."
                     ELSE "Request not tile-aligned for passthrough. Use x,y,w,h with matching output w,h for a native tile level.",
                     rg, sz, mode, m, "done")
      ELSE Outcome(0, "", rg, sz, mode, m,
                   IF needsEdgeTranscode(src, m) THEN "transcode" ELSE "stream")

\* the handler's synchronous part, from the URL to the delivery path
Handle(src, r) ==
  IF r.kind = "root" /\ r.prefix = "" THEN Reply(200, "service")
  ELSE IF r.prefix = "" THEN Reply(404, "Use /iiif/2 or /iiif/3 route prefix")
  ELSE IF r.kind \in {"root", "none"} THEN Reply(404, "Missing identifier")
  ELSE IF r.id # "known" \/ src = NoSource THEN Reply(404, "Unknown identifier")
  ELSE IF r.kind = "bare" THEN Reply(302, "info.json")
  ELSE IF r.kind = "info" THEN Reply(200, "info.json")
  ELSE IF r.kind # "tile" THEN Reply(404, "Invalid IIIF path")
  ELSE IF r.rotation # "0" THEN Reply(400, "Only rotation 0 is supported")
  ELSE IF r.quality \notin {"default.jpg", "default.jpeg"}
    THEN Reply(400, "Only default.jpg is supported")
  ELSE HandleTile(src, r)

\* the payload of sendJson for an info.json request
InfoFor(src, r, o) ==
  IF o.status = 200 /\ o.msg = "info.json"
  THEN IF r.prefix = "/iiif/3" THEN infoJsonV3(src) ELSE infoJsonV2(src)
  ELSE NoInfo

\* createHandler's callback up to its first await
HandleRequest ==
  /\ phase = "serving"
  /\ pc = "idle"
  /\ LET o == Handle(source, req)
     IN  /\ region' = o.region
         /\ size' = o.size
         /\ sizeMode' = o.sizeMode
         /\ match' = o.match
         /\ pc' = o.next
         /\ head' = IF o.status = 0 THEN NoHead ELSE Head0(o.status)
         /\ msg' = o.msg
         /\ res' = IF o.status = 0 THEN res ELSE "ended"
         /\ info' = InfoFor(source, req, o)
  /\ UNCHANGED <<source, tile, req, path, parts, body, crop, rawTile, tilePos, out,
                 unhandled, hostVars, unitVars>>

\* fail(res, 500, e.message) in the handler's catch: writeHead throws when a
\* head was written before, and that exception escapes the handler
CatchFail(message) ==
  /\ head' = IF head.status = 0 THEN Head0(500) ELSE head
  /\ msg' = IF head.status = 0 THEN message ELSE msg
  /\ unhandled' = (head.status # 0)
  /\ res' = IF head.status = 0 THEN "ended" ELSE res
  /\ pc' = "done"

\* sendTranscodedEdgeTile: reconstruct the tile, decode, crop, re-encode, send
SendTranscodedEdgeTile ==
  /\ pc = "transcode"
  /\ path' = path \cup {"transcode"}
  /\ \E failure \in IF match.byteCount = Undefined THEN {"read"}
                      ELSE {"none", "read", "codec"} :
       IF failure = "none"
       THEN /\ rawTile' = readJpegTileBuffer(source, tile, match)
            /\ crop' = edgeCropRect(match)
            /\ head' = Head0(200)
            /\ msg' = "transcoded"
            /\ res' = "ended"
            /\ pc' = "done"
            /\ UNCHANGED unhandled
       ELSE /\ rawTile' = IF failure = "codec"
                          THEN readJpegTileBuffer(source, tile, match) ELSE rawTile
            /\ crop' = IF failure = "codec" THEN edgeCropRect(match) ELSE crop
            /\ CatchFail(failure)
  /\ UNCHANGED <<source, tile, req, region, size, sizeMode, match, parts,
                 body, tilePos, out, info, hostVars, unitVars>>

\* streamJpegTile up to its return: open, inspect the tile's first and last
\* two bytes, write the head and the prefix, create and pipe the tile stream.
\* fs.createReadStream throws ERR_OUT_OF_RANGE when end < start, which is the
\* case exactly when tileLength is 0.
StreamJpegTile ==
  /\ pc = "stream"
  /\ path' = path \cup {"stream"}
  /\ \E failure \in IF match.byteCount = Undefined THEN {TRUE} ELSE BOOLEAN :
       IF failure
       THEN /\ CatchFail("read")
            /\ UNCHANGED <<parts, body, tilePos, out>>
       ELSE LET prts == partsOf(source, tile, match)
            IN  /\ parts' = prts
                /\ body' = prts.prefix
                /\ out' = "open"
                /\ tilePos' = tileStartOf(prts, match)
                /\ IF tileLengthOf(prts, match) = 0
                   THEN /\ head' = ImageHead(contentLengthOf(prts, match))
                        /\ unhandled' = TRUE
                        /\ pc' = "done"
                        /\ UNCHANGED <<msg, res>>
                   ELSE /\ head' = ImageHead(contentLengthOf(prts, match))
                        /\ pc' = "streaming"
                        /\ UNCHANGED <<msg, unhandled, res>>
  /\ UNCHANGED <<source, tile, req, region, size, sizeMode, match, crop, rawTile,
                 info, hostVars, unitVars>>

\* the last file position of the range given to fs.createReadStream, plus one
tileEnd == tileStartOf(parts, match) + tileLengthOf(parts, match)

\* tileStream delivers its next chunk, which the pipe writes to out
TileStreamData ==
  /\ pc = "streaming"
  /\ tilePos < tileEnd
  /\ \E n \in 1..(tileEnd - tilePos) :
       /\ body' = body \o readExactly(tile, match.offset, tilePos, n)
       /\ tilePos' = tilePos + n
  /\ UNCHANGED <<source, tile, req, pc, region, size, sizeMode, match, path, parts,
                 head, msg, crop, rawTile, out, unhandled, res, info, hostVars, unitVars>>

\* tileStream's "end": write the suffix and end out, whose end the pipe
\* passes on to res
TileStreamEnd ==
  /\ pc = "streaming"
  /\ tilePos = tileEnd
  /\ body' = body \o parts.suffix
  /\ out' = "ended"
  /\ res' = "ended"
  /\ pc' = "done"
  /\ UNCHANGED <<source, tile, req, region, size, sizeMode, match, path, parts,
                 head, msg, crop, rawTile, tilePos, unhandled, info, hostVars, unitVars>>

\* tileStream's "error": destroy out; the pipe does not pass a destroy on
\* to res, which stays as it is
TileStreamError ==
  /\ pc = "streaming"
  /\ out' = "destroyed"
  /\ pc' = "done"
  /\ UNCHANGED <<source, tile, req, region, size, sizeMode, match, path, parts,
                 head, msg, body, crop, rawTile, tilePos, unhandled, res, info,
                 hostVars, unitVars>>

Next ==
  \/ HandleRequest
  \/ SendTranscodedEdgeTile
  \/ StreamJpegTile
  \/ TileStreamData
  \/ TileStreamEnd
  \/ TileStreamError

\* --------------------------------------------------------- specifications

\* the payload every tile holds, and the coding tables, under Spec
SpecTile == <<XFF, XD8, XD8, XFF, XD9>>
SpecTables == Tables(<<XFF, XD8, XFF, XD9>>)

\* the state of a request about to be handled
Arrived ==
  /\ pc = "idle"
  /\ region = Thrown("") /\ size = Thrown("") /\ sizeMode = "unknown"
  /\ match = NoMatch /\ path = {} /\ parts = NoParts
  /\ head = NoHead /\ msg = "" /\ body = <<>>
  /\ crop = NoCrop /\ rawTile = <<>> /\ tilePos = 0
  /\ out = "none" /\ unhandled = FALSE
  /\ res = "open" /\ info = NoInfo

\* the server listens with the container of the known identifier catalogued
\* and no other request in flight
Serving ==
  /\ dir = [entries |-> <<>>, next |-> 1]
  /\ sources = [i \in {"known"} |-> source]
  /\ phase = "serving"
  /\ peer = NoPeer

Init ==
  /\ tile = SpecTile
  /\ source \in Pyramids(SpecTile, SpecTables)
  /\ req \in Requests(source.width, source.height)
  /\ Arrived
  /\ Serving
  /\ NoUnit

Spec == Init /\ [][Next]_vars

\* the container of SpecStream: an image 3 x 2 stored as one level of two
\* tiles 2 x 2, the second an edge tile
StreamPyramid(tileBytes, tables) ==
  BuildPyramid(LayOut(<<<<3, 2, JPEG>>>>, 2, 2, Len(tileBytes), tables, HeaderSize))

\* the first tile as stored and the edge tile at its remaining width
StreamRequests ==
  {TileRequest(RegionRaw("px", 0, 0, 2, 2), SizeRaw("wh", 2, 2)),
   TileRequest(RegionRaw("px", 2, 0, 1, 2), SizeRaw("wh", 1, 2))}

InitStream ==
  /\ tile \in ByteStrings(MaxTileBytes)
  /\ \E tables \in {NoTables} \cup {Tables(b) : b \in ByteStrings(MaxTablesBytes)} :
       source = StreamPyramid(tile, tables)
  /\ req \in StreamRequests
  /\ Arrived
  /\ Serving
  /\ NoUnit

SpecStream == InitStream /\ [][Next]_vars

\* ------------------------------------------------------ overlapping requests

\* the state of the running handler as a record
HandlerState ==
  [req |-> req, pc |-> pc, region |-> region, size |-> size, sizeMode |-> sizeMode,
   match |-> match, path |-> path, parts |-> parts, head |-> head, msg |-> msg,
   body |-> body, crop |-> crop, rawTile |-> rawTile, tilePos |-> tilePos,
   out |-> out, unhandled |-> unhandled, res |-> res, info |-> info]

\* a handler that has not run yet
ArrivedState(r) ==
  [req |-> r, pc |-> "idle", region |-> Thrown(""), size |-> Thrown(""),
   sizeMode |-> "unknown", match |-> NoMatch, path |-> {}, parts |-> NoParts,
   head |-> NoHead, msg |-> "", body |-> <<>>, crop |-> NoCrop, rawTile |-> <<>>,
   tilePos |-> 0, out |-> "none", unhandled |-> FALSE, res |-> "open",
   info |-> NoInfo]

\* mutant: the read position is one variable for both handlers
Switch_SharedPosition ==
  /\ peer # NoPeer
  /\ peer' = HandlerState
  /\ req' = peer.req /\ pc' = peer.pc /\ region' = peer.region /\ size' = peer.size
  /\ sizeMode' = peer.sizeMode /\ match' = peer.match /\ path' = peer.path
  /\ parts' = peer.parts /\ head' = peer.head /\ msg' = peer.msg /\ body' = peer.body
  /\ crop' = peer.crop /\ rawTile' = peer.rawTile
  /\ out' = peer.out /\ unhandled' = peer.unhandled /\ res' = peer.res
  /\ info' = peer.info
  /\ UNCHANGED <<source, tile, tilePos, dir, sources, phase, unitVars>>

\* The running handler or its stream is suspended (at an await, or between
\* two stream events) and the event loop continues the other handler. Every
\* variable of a handler is a local of its call, so all of them change hands;
\* the catalog and the container file are the same for both.
Switch ==
  /\ peer # NoPeer
  /\ peer' = HandlerState
  /\ req' = peer.req /\ pc' = peer.pc /\ region' = peer.region /\ size' = peer.size
  /\ sizeMode' = peer.sizeMode /\ match' = peer.match /\ path' = peer.path
  /\ parts' = peer.parts /\ head' = peer.head /\ msg' = peer.msg /\ body' = peer.body
  /\ crop' = peer.crop /\ rawTile' = peer.rawTile /\ tilePos' = peer.tilePos
  /\ out' = peer.out /\ unhandled' = peer.unhandled /\ res' = peer.res
  /\ info' = peer.info
  /\ UNCHANGED <<source, tile, dir, sources, phase, unitVars>>

NextPair ==
  \/ HandleRequest
  \/ SendTranscodedEdgeTile
  \/ StreamJpegTile
  \/ TileStreamData
  \/ TileStreamEnd
  \/ TileStreamError
  \/ Switch

\* the tile payloads and coding tables of SpecPair
PairTiles == {SpecTile, <<XD8, XD8, XD9>>}
PairTables == {NoTables, SpecTables}

\* two requests arrive together for tiles of one container
InitPair ==
  /\ tile \in PairTiles
  /\ \E tables \in PairTables : source = StreamPyramid(tile, tables)
  /\ req \in StreamRequests
  /\ Arrived
  /\ dir = [entries |-> <<>>, next |-> 1]
  /\ sources = [i \in {"known"} |-> source]
  /\ phase = "serving"
  /\ peer \in {ArrivedState(r) : r \in StreamRequests}
  /\ NoUnit

SpecPair == InitPair /\ [][NextPair]_vars

\* ------------------------------------------------------------ catalog load

\* an entry of the containers directory: name stem and lower-cased
\* extension, whether it is a regular file, and what the file holds
DirEntry(stem, ext, isFile, file) ==
  [stem |-> stem, ext |-> ext, isFile |-> isFile, file |-> file]

\* entry.name.toLowerCase(), on the extensions of the model
toLowerCase(ext) ==
  CASE ext = ".TIF" -> ".tif"
    [] ext = ".Tiff" -> ".tiff"
    [] ext = ".PTIF" -> ".ptif"
    [] OTHER -> ext

\* the extensions loadSources takes for containers
Recognized(ext) == toLowerCase(ext) \in {".tif", ".tiff", ".ptif"}

\* the catalog before the first container is loaded: new Map()
EmptyCatalog == [i \in {} |-> NoSource]

\* map.set(stem, source) whether or not the map has the stem
SetIfAbsent_Overwrite(map, stem, src) ==
  [i \in DOMAIN map \cup {stem} |-> IF i = stem THEN src ELSE map[i]]
\* map.set(stem, source) unless the map has the stem
SetIfAbsent(map, stem, src) ==
  IF stem \in DOMAIN map THEN map
  ELSE [i \in DOMAIN map \cup {stem} |-> IF i = stem THEN src ELSE map[i]]

\* one round of the loop of loadSources. An exception of parseTiffPyramid
\* is not caught in loadSources: it rejects main(), whose catch logs the
\* message and calls process.exit(1).
LoadEntry ==
  /\ phase = "loading"
  /\ dir.next <= Len(dir.entries)
  /\ LET entry == dir.entries[dir.next]
         parsed == parseTiffPyramid(entry.file)
     IN  IF ~entry.isFile \/ ~Recognized(entry.ext)
           THEN /\ dir' = [dir EXCEPT !.next = @ + 1]
                /\ UNCHANGED <<sources, phase>>
         ELSE IF ~parsed.ok
           THEN /\ phase' = "exited"
                /\ UNCHANGED <<dir, sources>>
         ELSE /\ dir' = [dir EXCEPT !.next = @ + 1]
              /\ sources' = SetIfAbsent(sources, entry.stem, parsed.pyramid)
              /\ UNCHANGED phase
  /\ UNCHANGED <<source, tile, handlerVars, peer, unitVars>>

\* loadSources returns the map; main creates the handler and listens
Listen ==
  /\ phase = "loading"
  /\ dir.next > Len(dir.entries)
  /\ phase' = "serving"
  /\ source' = IF "known" \in DOMAIN sources THEN sources["known"] ELSE NoSource
  /\ UNCHANGED <<tile, handlerVars, dir, sources, peer, unitVars>>

NextCatalog ==
  \/ LoadEntry
  \/ Listen
  \/ HandleRequest
  \/ SendTranscodedEdgeTile
  \/ StreamJpegTile
  \/ TileStreamData
  \/ TileStreamEnd
  \/ TileStreamError

\* --- the directories of the model

\* the level directories of the containers: a level of several tiles, a
\* level that fills one tile and a level smaller than its one tile, each
\* JPEG or not, each with tile tables of one entry per tile ("whole"), with
\* empty tables ("empty") or with a byte-count table one entry short
\* ("short")
CatalogDims == {<<MaxTile + 1, MaxTile>>, <<MaxTile, MaxTile>>, <<1, 1>>}
CatalogIfds ==
  {LET whole == LayOut(<<<<d[1], d[2], c>>>>, MaxTile, MaxTile, Len(SpecTile),
                       SpecTables, HeaderSize)[1]
   IN  CASE tables = "whole" -> whole
         [] tables = "empty" ->
              PageIfd(d[1], d[2], MaxTile, MaxTile, c, <<>>, <<>>, SpecTables)
         [] tables = "short" ->
              [whole EXCEPT !.tileByteCounts = SubSeq(@, 1, Len(@) - 1)] :
     d \in CatalogDims, c \in Compressions, tables \in {"whole", "empty", "short"}}

\* the sequences of at most n level directories, in any order
RECURSIVE IfdLists(_)
IfdLists(n) ==
  IF n = 0 THEN {<<>>}
  ELSE IfdLists(n - 1)
       \cup {Append(l, p) : l \in {m \in IfdLists(n - 1) : Len(m) = n - 1},
                            p \in CatalogIfds}

\* the exceptions parseIfd, readField, readNumericField and the header
\* checks of parseTiffPyramid throw
StructuralErrors ==
  {"Unsupported byte order", "Not a TIFF/BigTIFF file", "Unexpected EOF",
   "Unsupported TIFF type 0", "Missing TIFF tag 324"}

Containers ==
  {Container(e, <<>>) : e \in StructuralErrors}
  \cup {Container("", l) : l \in IfdLists(MaxLevels)}

\* a container of one level that fills one tile
GoodContainer ==
  Container("", <<LayOut(<<<<MaxTile, MaxTile, JPEG>>>>, MaxTile, MaxTile,
                         Len(SpecTile), SpecTables, HeaderSize)[1]>>)

\* the entries a directory holds beside the container of the known
\* identifier
OtherEntries ==
  {DirEntry("other", ".tif", TRUE, GoodContainer),
   DirEntry("other", ".ptif", TRUE, Container("Unexpected EOF", <<>>)),
   DirEntry("known", ".tiff", TRUE, GoodContainer),
   DirEntry("known", ".TIF", TRUE, GoodContainer),
   DirEntry("notes", ".TXT", TRUE, GoodContainer),
   DirEntry("notes", ".txt", TRUE, Container("Not a TIFF/BigTIFF file", <<>>)),
   DirEntry("sub", ".tif", FALSE, Container("Unexpected EOF", <<>>))}

Directories ==
  LET known == {DirEntry("known", ".tif", TRUE, c) : c \in Containers}
  IN  {<<k>> : k \in known} \cup {<<o>> : o \in OtherEntries}
      \cup {<<o, k>> : o \in OtherEntries, k \in known}
      \cup {<<k, o>> : o \in OtherEntries, k \in known}

\* requests for the capability document, for the whole image and for the
\* first and the second tile of a level
CatalogRequests ==
  {Request(p, k, "known", FullRaw, SizeRaw("full", 0, 0), "0", "default.jpg") :
     p \in {"/iiif/2", "/iiif/3"}, k \in {"info", "bare", "tile"}}
  \cup {TileRequest(FullRaw, SizeRaw("wh", w, h)) : w \in 1..(MaxTile + 1), h \in 1..MaxTile}
  \cup {TileRequest(RegionRaw("px", 0, 0, MaxTile, MaxTile), SizeRaw("wh", MaxTile, MaxTile)),
        TileRequest(RegionRaw("px", MaxTile, 0, 1, MaxTile), SizeRaw("wh", 1, MaxTile))}

InitCatalog ==
  /\ tile = SpecTile
  /\ source = NoSource
  /\ dir \in {[entries |-> d, next |-> 1] : d \in Directories}
  /\ sources = EmptyCatalog
  /\ phase = "loading"
  /\ peer = NoPeer
  /\ req \in CatalogRequests
  /\ Arrived
  /\ NoUnit

SpecCatalog == InitCatalog /\ [][NextCatalog]_vars

\* ---------------------------------------------------- functions on their own
\* The exported functions, called directly as the unit tests call them: no
\* server listens (phase "unit") and one call is made.

\* nothing catalogued, nothing received, nothing sent
Unit ==
  /\ source = NoSource /\ tile = <<>>
  /\ dir = [entries |-> <<>>, next |-> 1]
  /\ sources = EmptyCatalog
  /\ phase = "unit"
  /\ peer = NoPeer
  /\ sizeMode = "unknown" /\ match = NoMatch /\ path = {} /\ parts = NoParts
  /\ head = NoHead /\ msg = "" /\ body = <<>>
  /\ crop = NoCrop /\ rawTile = <<>> /\ tilePos = 0
  /\ out = "none" /\ unhandled = FALSE
  /\ res = "open" /\ info = NoInfo

\* parseSize(raw, regionW, regionH), with the arguments held in req and region
ParseSize ==
  /\ phase = "unit"
  /\ pc = "idle"
  /\ size' = parseSize(req.size, region.w, region.h)
  /\ pc' = "done"
  /\ UNCHANGED <<source, tile, req, region, sizeMode, match, path, parts, head, msg,
                 body, crop, rawTile, tilePos, out, unhandled, res, info, hostVars, unitVars>>

NextSize == ParseSize

\* the size strings given to parseSize: every form, zero included
SizeInputs ==
  {SizeRaw("full", 0, 0), SizeRaw("bad", 0, 0)}
  \cup {SizeRaw("wh", w, h) : w \in 0..MaxTile, h \in 0..MaxTile}
  \cup {SizeRaw("w", w, 0) : w \in 0..MaxRegion}
  \cup {SizeRaw("h", 0, h) : h \in 0..MaxRegion}

InitSize ==
  /\ req \in {TileRequest(FullRaw, sz) : sz \in SizeInputs}
  /\ region \in {Region(0, 0, w, h, FALSE) : w \in 1..MaxRegion, h \in 1..MaxRegion}
  /\ size = Thrown("")
  /\ pc = "idle"
  /\ Unit
  /\ NoUnit

SpecSize == InitSize /\ [][NextSize]_vars

\* --- the directory traversal of parseTiffPyramid

\* A directory of the file: whether it carries the five tags of a tiled
\* level (256, 257, 322, 323, 259), its sub-directory pointers (tag 330) and
\* its next-directory pointer.
Directory(tiled, subIfds, nextOffset) ==
  [tiled |-> tiled, subIfds |-> subIfds, nextOffset |-> nextOffset]

\* the level read from the tiled directory at offset off: one tile, its
\* width telling the directories apart
LevelAt(off) ==
  PageIfd(off, 1, MaxTile, MaxTile, JPEG, <<HeaderSize>>, <<Len(SpecTile)>>, NoTables)

\* if (!off || visited.has(off)) continue
Skipped_ZeroOnly(off, seen) == off = 0
Skipped(off, seen) == off = 0 \/ off \in seen

\* a round of the loop that takes an offset off the queue and drops it
SkipOffset ==
  /\ pc = "traversing"
  /\ queue # <<>>
  /\ Skipped(Head(queue), visited)
  /\ queue' = Tail(queue)
  /\ UNCHANGED <<source, tile, handlerVars, hostVars, tiff, visited, pageIfds, parses,
                 renderVars, ifdVars>>

\* a round of the loop that parses the directory at the offset taken off the
\* queue; parseIfd throws "Unexpected EOF" when the offset lies beyond the
\* end of the file, which ends parseTiffPyramid
ParseDirectory ==
  /\ pc = "traversing"
  /\ queue # <<>>
  /\ ~Skipped(Head(queue), visited)
  /\ LET off == Head(queue)
     IN  /\ visited' = visited \cup {off}
         /\ parses' = [parses EXCEPT ![off] = @ + 1]
         /\ IF off \notin DOMAIN tiff.dirs
            THEN /\ msg' = "Unexpected EOF"
                 /\ pc' = "done"
                 /\ queue' = Tail(queue)
                 /\ UNCHANGED pageIfds
            ELSE LET ifd == tiff.dirs[off]
                 IN  /\ pageIfds' = IF ifd.tiled THEN Append(pageIfds, LevelAt(off))
                                    ELSE pageIfds
                     /\ queue' = Tail(queue) \o ifd.subIfds
                                   \o (IF ifd.nextOffset # 0 THEN <<ifd.nextOffset>> ELSE <<>>)
                     /\ UNCHANGED <<msg, pc>>
  /\ UNCHANGED <<source, tile, req, region, size, sizeMode, match, path, parts, head,
                 body, crop, rawTile, tilePos, out, unhandled, res, info, hostVars, tiff,
                 renderVars, ifdVars>>

\* the queue is empty: the levels found are sorted and returned, or "No
\* tiled pages found in TIFF" is thrown
ReturnPyramid ==
  /\ pc = "traversing"
  /\ queue = <<>>
  /\ pc' = "done"
  /\ IF pageIfds = <<>>
     THEN msg' = "No tiled pages found in TIFF" /\ UNCHANGED source
     ELSE source' = BuildPyramid(pageIfds) /\ UNCHANGED msg
  /\ UNCHANGED <<tile, req, region, size, sizeMode, match, path, parts, head,
                 body, crop, rawTile, tilePos, out, unhandled, res, info, hostVars,
                 traverseVars, renderVars, ifdVars>>

NextTraverse ==
  \/ SkipOffset
  \/ ParseDirectory
  \/ ReturnPyramid

\* the sequences of at most n pointers
RECURSIVE Pointers(_)
Pointers(n) ==
  IF n = 0 THEN {<<>>}
  ELSE Pointers(n - 1)
       \cup {Append(l, o) : l \in {m \in Pointers(n - 1) : Len(m) = n - 1},
                            o \in 0..(MaxOffset + 1)}

IfdRecords ==
  {Directory(t, sub, nxt) :
     t \in BOOLEAN, sub \in Pointers(MaxSubIfds), nxt \in 0..(MaxOffset + 1)}

\* every file of MaxOffset directories, cyclic or not, with every first offset
Tiffs ==
  {[first |-> f, dirs |-> d] :
     f \in 0..(MaxOffset + 1), d \in [1..MaxOffset -> IfdRecords]}

\* parseTiffPyramid has read the header: queue = [firstIfd]
InitTraverse ==
  /\ tiff \in Tiffs
  /\ queue = <<tiff.first>>
  /\ visited = {}
  /\ pageIfds = <<>>
  /\ parses = [o \in 0..(MaxOffset + 1) |-> 0]
  /\ record = NoRecord /\ fmt = "" /\ plan = NoPlan /\ attempts = <<>>
  /\ rendered = NotRendered
  /\ fd = <<>> /\ parsedIfd = NoIfd /\ field = NoField
  /\ req = TileRequest(FullRaw, SizeRaw("full", 0, 0))
  /\ region = Thrown("") /\ size = Thrown("")
  /\ pc = "traversing"
  /\ Unit

\* each file read completes, so the loop goes on while it can
SpecTraverse == InitTraverse /\ [][NextTraverse]_vars /\ WF_vars(NextTraverse)

\* --- renderImage of the decode-resize server

\* Math.floor(Math.log2(shrink)) for shrink = max(1, min(region.w / size.w,
\* region.h / size.h)): the largest level whose scale does not exceed both
\* quotients, counted up from level k
RECURSIVE targetLevel(_, _, _)
targetLevel(region_, size_, k) ==
  IF Pow2(k + 1) * size_.w <= region_.w /\ Pow2(k + 1) * size_.h <= region_.h
  THEN targetLevel(region_, size_, k + 1)
  ELSE k

\* mutant: the level is not limited to the pages the file has
selectPyramidLevel_Unclamped(rec, region_, size_) ==
  LET page == targetLevel(region_, size_, 0)
  IN  [page |-> page, scale |-> Pow2(page)]

selectPyramidLevel(rec, region_, size_) ==
  LET pages == Max(1, rec.pages)
      page == Max(0, Min(pages - 1, targetLevel(region_, size_, 0)))
  IN  IF pages = 1 THEN [page |-> 0, scale |-> 1]
      ELSE [page |-> page, scale |-> Pow2(page)]

buildOperationPlan(rec, region_, size_) ==
  LET selected == selectPyramidLevel(rec, region_, size_)
      pageWidth == Max(1, rec.width \div selected.scale)
      pageHeight == Max(1, rec.height \div selected.scale)
      left == Max(0, Min(pageWidth - 1, region_.x \div selected.scale))
      top == Max(0, Min(pageHeight - 1, region_.y \div selected.scale))
      right == Max(left + 1, Min(pageWidth, Ceil(region_.x + region_.w, selected.scale)))
      bottom == Max(top + 1, Min(pageHeight, Ceil(region_.y + region_.h, selected.scale)))
  IN  [page |-> selected.page,
       extract |-> [left |-> left, top |-> top,
                    width |-> right - left, height |-> bottom - top]]

\* mutant: the page option is set on every call of render
pageOption_Always(usePyramidPage, pl) == pl.page
\* inputOptions.page of a call of render
pageOption(usePyramidPage, pl) == IF usePyramidPage THEN pl.page ELSE Undefined

\* One call of render as sharp sees it: the page option, the rectangle
\* given to extract (NoCrop when extract is not called) and whether
\* toBuffer resolved.
Attempt(usePyramidPage, pl, ok) ==
  LET isFullRegion == /\ region.x = 0 /\ region.y = 0
                      /\ region.w = record.width /\ region.h = record.height
  IN  [page |-> pageOption(usePyramidPage, pl),
       extract |-> IF isFullRegion THEN NoCrop
                   ELSE IF usePyramidPage THEN pl.extract
                   ELSE [left |-> region.x, top |-> region.y,
                         width |-> region.w, height |-> region.h],
       ok |-> ok]

Returned == [status |-> "returned",
             contentType |-> IF fmt = "png" THEN "image/png" ELSE "image/jpeg"]
Rejected == [status |-> "thrown", contentType |-> ""]

\* try { return await render(true) }: sharp resolves or rejects
RenderPyramidPage ==
  /\ pc = "render"
  /\ LET pl == buildOperationPlan(record, region, size)
     IN  /\ plan' = pl
         /\ \E ok \in BOOLEAN :
              /\ attempts' = Append(attempts, Attempt(TRUE, pl, ok))
              /\ rendered' = IF ok THEN Returned ELSE rendered
              /\ pc' = IF ok THEN "done" ELSE "fallback"
  /\ UNCHANGED <<source, tile, req, region, size, sizeMode, match, path, parts, head,
                 msg, body, crop, rawTile, tilePos, out, unhandled, res, info,
                 hostVars, traverseVars, record, fmt, ifdVars>>

\* catch (e) { return render(false) }: sharp resolves or rejects, and a
\* rejection is the rejection of renderImage
RenderBaseLevel ==
  /\ pc = "fallback"
  /\ \E ok \in BOOLEAN :
       /\ attempts' = Append(attempts, Attempt(FALSE, plan, ok))
       /\ rendered' = IF ok THEN Returned ELSE Rejected
  /\ pc' = "done"
  /\ UNCHANGED <<source, tile, req, region, size, sizeMode, match, path, parts, head,
                 msg, body, crop, rawTile, tilePos, out, unhandled, res, info,
                 hostVars, traverseVars, record, fmt, plan, ifdVars>>

NextRender ==
  \/ RenderPyramidPage
  \/ RenderBaseLevel

\* records of every size with 0 (none reported) to MaxPages pages
Records ==
  {[width |-> w, height |-> h, pages |-> n] :
     w \in 1..MaxPlanDim, h \in 1..MaxPlanDim, n \in 0..MaxPages}

\* the regions inside an image, as the server's parseRegion returns them
RegionsInside(rec) ==
  {r \in {Region(x, y, w, h, FALSE) :
            x \in 0..(rec.width - 1), y \in 0..(rec.height - 1),
            w \in 1..rec.width, h \in 1..rec.height} :
     r.x + r.w <= rec.width /\ r.y + r.h <= rec.height}

InitRender ==
  /\ record \in Records
  /\ region \in RegionsInside(record)
  /\ size \in {Size(w, h) : w \in 1..MaxPlanDim, h \in 1..MaxPlanDim}
  /\ fmt \in {"jpg", "png"}
  /\ plan = NoPlan
  /\ attempts = <<>>
  /\ rendered = NotRendered
  /\ req = TileRequest(FullRaw, SizeRaw("full", 0, 0))
  /\ pc = "render"
  /\ tiff = NoTiff /\ queue = <<>> /\ visited = {} /\ pageIfds = <<>> /\ parses = <<>>
  /\ fd = <<>> /\ parsedIfd = NoIfd /\ field = NoField
  /\ Unit

SpecRender == InitRender /\ [][NextRender]_vars

\* --- parseIfd and readField on the bytes of a file

\* A JS number read from a file, too large for one model integer, is held
\* as hi * 2^24 + lo with 0 <= lo < 2^24.
Number(hi, lo) == [hi |-> hi, lo |-> lo]
FromInt(n) == Number(0, n)
\* readU64 threw "Offset/value exceeds JS safe integer"
Unsafe == Number(-1, -1)
\* Number.MAX_SAFE_INTEGER is 2^SafeBits - 1
SafeBits == 53

\* the n bytes of buf at offset off, most significant first
Digits(buf, off, n, le) ==
  [j \in 1..n |-> IF le THEN buf[off + n + 1 - j] ELSE buf[off + j]]

readU16(buf, off, le) ==
  LET d == Digits(buf, off, 2, le) IN d[1] * 256 + d[2]

readU32(buf, off, le) ==
  LET d == Digits(buf, off, 4, le)
  IN  Number(d[1], d[2] * 65536 + d[3] * 256 + d[4])

\* readBigUInt64LE / BE, then the comparison with Number.MAX_SAFE_INTEGER
\* made on the two most significant bytes: v > 2^53 - 1 exactly when
\* v \div 2^48 >= 2^(53 - 48)
readU64(buf, off, le) ==
  LET d == Digits(buf, off, 8, le)
  IN  IF d[1] * 256 + d[2] >= Pow2(SafeBits - 48) THEN Unsafe
      ELSE Number(d[2] * 16777216 + d[3] * 65536 + d[4] * 256 + d[5],
                  d[6] * 65536 + d[7] * 256 + d[8])

TYPE_SIZES ==
  (1 :> 1) @@ (2 :> 1) @@ (3 :> 2) @@ (4 :> 4) @@ (5 :> 8) @@ (7 :> 1)
  @@ (16 :> 8) @@ (18 :> 8)

\* readExactly(fd, position, length) on a whole file: CanRead tells whether
\* it returns (it throws "Unexpected EOF" when the file ends before
\* position + length), ReadBytes is what it returns
CanRead(file, position, length) ==
  position.hi = 0 /\ length.hi = 0 /\ position.lo + length.lo <= Len(file)
ReadBytes(file, position, length) ==
  Subarray(file, position.lo, position.lo + length.lo)

IfdThrew(message) ==
  [status |-> "threw", error |-> message, entries |-> <<>>, nextOffset |-> Unsafe]
IfdReturned(entries, nextOffset) ==
  [status |-> "returned", error |-> "", entries |-> entries, nextOffset |-> nextOffset]

\* entries.set(tag, ...)
MapSet(map, key, value) ==
  [k \in DOMAIN map \cup {key} |-> IF k = key THEN value ELSE map[k]]

\* the loop over the count records of entriesBuf from record i on: the map
\* built, unless readU64 threw
RECURSIVE ReadEntries(_, _, _, _, _, _)
ReadEntries(entriesBuf, i, count, le, bigTiff, entries) ==
  IF i >= count THEN [threw |-> FALSE, map |-> entries]
  ELSE LET entrySize == IF bigTiff THEN 20 ELSE 12
           base == i * entrySize
           tag == readU16(entriesBuf, base, le)
           type == readU16(entriesBuf, base + 2, le)
           valueCount == IF bigTiff THEN readU64(entriesBuf, base + 4, le)
                         ELSE readU32(entriesBuf, base + 4, le)
           valueOffset == IF bigTiff THEN readU64(entriesBuf, base + 12, le)
                          ELSE readU32(entriesBuf, base + 8, le)
           inlineBytes == IF bigTiff THEN Subarray(entriesBuf, base + 12, base + 20)
                          ELSE Subarray(entriesBuf, base + 8, base + 12)
       IN  IF valueCount = Unsafe \/ valueOffset = Unsafe
           THEN [threw |-> TRUE, map |-> entries]
           ELSE ReadEntries(entriesBuf, i + 1, count, le, bigTiff,
                  MapSet(entries, tag,
                         [tag |-> tag, type |-> type, valueCount |-> valueCount,
                          valueOffset |-> valueOffset, inlineBytes |-> inlineBytes,
                          valueSize |-> IF bigTiff THEN 8 ELSE 4]))

parseIfd(file, offset, le, bigTiff) ==
  LET countSize == IF bigTiff THEN 8 ELSE 2
      entrySize == IF bigTiff THEN 20 ELSE 12
      valueSize == IF bigTiff THEN 8 ELSE 4
  IN  IF ~CanRead(file, offset, FromInt(countSize)) THEN IfdThrew("Unexpected EOF")
      ELSE
      LET countBuf == ReadBytes(file, offset, FromInt(countSize))
          count == IF bigTiff THEN readU64(countBuf, 0, le)
                   ELSE FromInt(readU16(countBuf, 0, le))
      IN  IF count = Unsafe THEN IfdThrew("Offset/value exceeds JS safe integer")
          ELSE IF count.hi # 0
                  \/ ~CanRead(file, FromInt(offset.lo + countSize),
                              FromInt(count.lo * entrySize))
          THEN IfdThrew("Unexpected EOF")
          ELSE
          LET entriesBuf == ReadBytes(file, FromInt(offset.lo + countSize),
                                        FromInt(count.lo * entrySize))
              entries == ReadEntries(entriesBuf, 0, count.lo, le, bigTiff, <<>>)
              nextAt == FromInt(offset.lo + countSize + count.lo * entrySize)
          IN  IF entries.threw THEN IfdThrew("Offset/value exceeds JS safe integer")
              ELSE IF ~CanRead(file, nextAt, FromInt(valueSize))
              THEN IfdThrew("Unexpected EOF")
              ELSE
              LET nextBuf == ReadBytes(file, nextAt, FromInt(valueSize))
                  nextOffset == IF bigTiff THEN readU64(nextBuf, 0, le)
                                ELSE readU32(nextBuf, 0, le)
              IN  IF nextOffset = Unsafe
                  THEN IfdThrew("Offset/value exceeds JS safe integer")
                  ELSE IfdReturned(entries.map, nextOffset)

FieldThrew(message) ==
  [tag |-> 0, status |-> "threw", error |-> message, raw |-> <<>>, values |-> <<>>]
\* readField resolved with the bytes raw
FieldRaw(raw) ==
  [tag |-> 0, status |-> "returned", error |-> "", raw |-> raw, values |-> <<>>]
\* readNumericField resolved with values decoded from raw
FieldValues(raw, values) ==
  [tag |-> 0, status |-> "returned", error |-> "", raw |-> raw, values |-> values]
\* readNumericField resolved with null
FieldNull == [tag |-> 0, status |-> "null", error |-> "", raw |-> <<>>, values |-> <<>>]

\* byteLen <= entry.valueSize, for byteLen = entry.valueCount * typeSize
FitsSlot(valueCount, typeSize, valueSize) ==
  valueCount.hi = 0 /\ valueCount.lo * typeSize <= valueSize

readField(file, entry, le) ==
  IF entry.type \notin DOMAIN TYPE_SIZES THEN FieldThrew("Unsupported TIFF type")
  ELSE LET typeSize == TYPE_SIZES[entry.type]
           byteLen == FromInt(entry.valueCount.lo * typeSize)
       IN  IF FitsSlot(entry.valueCount, typeSize, entry.valueSize)
           THEN FieldRaw(Subarray(entry.inlineBytes, 0, byteLen.lo))
           ELSE IF entry.valueCount.hi = 0 /\ CanRead(file, entry.valueOffset, byteLen)
           THEN FieldRaw(ReadBytes(file, entry.valueOffset, byteLen))
           ELSE FieldThrew("Unexpected EOF")

\* value i (from 0) of decodeNumericValues(raw, type, count, le)
DecodeAt(raw, type, i, le) ==
  IF type = 3 THEN FromInt(readU16(raw, 2 * i, le))
  ELSE IF type = 4 THEN readU32(raw, 4 * i, le)
  ELSE IF type \in {16, 18} THEN readU64(raw, 8 * i, le)
  ELSE FromInt(raw[i + 1])

decodeNumericValues(raw, type, count, le) ==
  IF count > 0 /\ type \notin {1, 3, 4, 7, 16, 18}
  THEN FieldThrew("Unsupported TIFF field type")
  ELSE LET values == [i \in 1..count |-> DecodeAt(raw, type, i - 1, le)]
       IN  IF \E i \in 1..count : values[i] = Unsafe
           THEN FieldThrew("Offset/value exceeds JS safe integer")
           ELSE FieldValues(raw, values)

readNumericField(file, entries, tag, le, required) ==
  IF tag \notin DOMAIN entries
  THEN IF required THEN FieldThrew("Missing TIFF tag") ELSE FieldNull
  ELSE LET read == readField(file, entries[tag], le)
       IN  IF read.status = "threw" THEN read
           ELSE decodeNumericValues(read.raw, entries[tag].type,
                                    entries[tag].valueCount.lo, le)

\* the header parseTiffPyramid reads: byte order, magic, first directory
II == <<73, 73>>
MM == <<77, 77>>
headerLe(file) == Subarray(file, 0, 2) = II
headerBigTiff(file) == readU16(file, 2, headerLe(file)) = 43
firstIfd(file) ==
  IF headerBigTiff(file) THEN readU64(file, 8, headerLe(file))
  ELSE readU32(file, 4, headerLe(file))

\* const ifd = await parseIfd(fd, off, le, bigTiff) for the first directory
ParseIfd ==
  /\ phase = "unit"
  /\ pc = "idle"
  /\ parsedIfd' = parseIfd(fd, firstIfd(fd), headerLe(fd), headerBigTiff(fd))
  /\ IF parsedIfd'.status = "threw"
     THEN pc' = "done" /\ msg' = parsedIfd'.error
     ELSE pc' = "parsed" /\ UNCHANGED msg
  /\ UNCHANGED <<source, tile, req, region, size, sizeMode, match, path, parts, head,
                 body, crop, rawTile, tilePos, out, unhandled, res, info, hostVars,
                 traverseVars, renderVars, fd, field>>

\* the tags parseTiffPyramid asks for: width, tile offsets, coding tables
Tags == {256, 324, 347}

\* await readField(fd, entries.get(tag), le), as for the coding tables
ReadField ==
  /\ pc = "parsed"
  /\ \E tag \in Tags \cap DOMAIN parsedIfd.entries :
       field' = [readField(fd, parsedIfd.entries[tag], headerLe(fd)) EXCEPT !.tag = tag]
  /\ pc' = "done"
  /\ msg' = field'.error
  /\ UNCHANGED <<source, tile, req, region, size, sizeMode, match, path, parts, head,
                 body, crop, rawTile, tilePos, out, unhandled, res, info, hostVars,
                 traverseVars, renderVars, fd, parsedIfd>>

\* await readNumericField(fd, entries, tag, le, required)
ReadNumericField ==
  /\ pc = "parsed"
  /\ \E tag \in Tags, required \in BOOLEAN :
       field' = [readNumericField(fd, parsedIfd.entries, tag, headerLe(fd), required)
                   EXCEPT !.tag = tag]
  /\ pc' = "done"
  /\ msg' = field'.error
  /\ UNCHANGED <<source, tile, req, region, size, sizeMode, match, path, parts, head,
                 body, crop, rawTile, tilePos, out, unhandled, res, info, hostVars,
                 traverseVars, renderVars, fd, parsedIfd>>

NextIfd ==
  \/ ParseIfd
  \/ ReadField
  \/ ReadNumericField

\* --- the files given to parseIfd

\* n in len bytes, in the file's byte order
Encode(n, len, le) ==
  [j \in 1..len |->
     LET k == IF le THEN j - 1 ELSE len - j
     IN  IF k >= 4 THEN 0 ELSE (n \div Pow2(8 * k)) % 256]

EncodeHeader(le, bigTiff) ==
  (IF le THEN II ELSE MM)
  \o (IF bigTiff
      THEN Encode(43, 2, le) \o Encode(8, 2, le) \o Encode(0, 2, le)
           \o Encode(HeaderSize, 8, le)
      ELSE Encode(42, 2, le) \o Encode(HeaderSize, 4, le) \o Encode(0, 8, le))

\* one record of a directory: tag, type, count and the bytes of the slot
EncodeEntry(e, le, bigTiff) ==
  Encode(e.tag, 2, le) \o Encode(e.type, 2, le)
  \o Encode(e.count, IF bigTiff THEN 8 ELSE 4, le) \o e.slot

RECURSIVE EncodeEntries(_, _, _)
EncodeEntries(es, le, bigTiff) ==
  IF es = <<>> THEN <<>>
  ELSE EncodeEntry(Head(es), le, bigTiff) \o EncodeEntries(Tail(es), le, bigTiff)

\* a file: header, one directory with no successor, then the bytes of the
\* tile offsets
TileOffsetsData == <<1, 2, 3, 4, 5, 6, 7, 8, 9, 10, 11, 12>>
EncodeTiff(es, le, bigTiff) ==
  EncodeHeader(le, bigTiff)
  \o Encode(Len(es), IF bigTiff THEN 8 ELSE 2, le)
  \o EncodeEntries(es, le, bigTiff)
  \o Encode(0, IF bigTiff THEN 8 ELSE 4, le)
  \o TileOffsetsData

\* where TileOffsetsData lies in a file of n records
DataOffset(n, bigTiff) ==
  HeaderSize + (IF bigTiff THEN 8 + n * 20 + 8 ELSE 2 + n * 12 + 4)

\* the byte values put into a slot, around the safe-integer limit
SlotBytes == {1, 31, 32, 255}
\* the slots of n bytes with at most MaxSet bytes that are not zero
Slots(n) ==
  {[j \in 1..n |-> IF j \in S THEN b ELSE 0] :
     S \in {T \in SUBSET (1..n) : Cardinality(T) <= MaxSet}, b \in SlotBytes}

\* the types of an entry: BYTE, ASCII, SHORT, LONG, DOUBLE (no known size),
\* LONG8
EntryTypes == {1, 2, 3, 4, 12, 16}

\* the tile offsets of a level: 3 LONG values stored at the end of the file
TileOffsetsEntry(n, le, bigTiff) ==
  [tag |-> 324, type |-> 4, count |-> 3,
   slot |-> Encode(DataOffset(n, bigTiff), IF bigTiff THEN 8 ELSE 4, le)]

\* every entry with any slot, values fitting the slot or not
Entries(bigTiff) ==
  {[tag |-> tag, type |-> type, count |-> count, slot |-> slot] :
     tag \in {256, 347}, type \in EntryTypes, count \in 0..MaxCount,
     slot \in Slots(IF bigTiff THEN 8 ELSE 4)}

\* the files of one entry, alone or after the tile offsets of a level
TiffFiles(le, bigTiff) ==
  {EncodeTiff(<<e>>, le, bigTiff) : e \in Entries(bigTiff)}
  \cup {EncodeTiff(<<TileOffsetsEntry(2, le, bigTiff), e>>, le, bigTiff) :
          e \in Entries(bigTiff)}

\* parseTiffPyramid has read the header and takes the first directory
InitIfd ==
  /\ \E le \in BOOLEAN, bigTiff \in BOOLEAN : fd \in TiffFiles(le, bigTiff)
  /\ parsedIfd = NoIfd
  /\ field = NoField
  /\ tiff = NoTiff /\ queue = <<>> /\ visited = {} /\ pageIfds = <<>> /\ parses = <<>>
  /\ record = NoRecord /\ fmt = "" /\ plan = NoPlan /\ attempts = <<>>
  /\ rendered = NotRendered
  /\ req = TileRequest(FullRaw, SizeRaw("full", 0, 0))
  /\ region = Thrown("") /\ size = Thrown("")
  /\ pc = "idle"
  /\ Unit

SpecIfd == InitIfd /\ [][NextIfd]_vars

\* ------------------------------------------------------------------ claims

\* the request was handled up to a match for a numeric region
TileMatched == pc # "idle" /\ match.found /\ ~region.isFull
\* the request was handled up to a match for the full region
FullMatched == pc # "idle" /\ match.found /\ region.isFull
\* match.page
matchPage == source.pages[match.pageIdx]

\* C1: every match for a numeric region lies in the tile grid of its level:
\* column region.x / (tileWidth * scale) < tilesAcross, row
\* region.y / (tileHeight * scale) < tilesDown, and tileIndex =
\* row * tilesAcross + column.
C1_MatchInsideGrid ==
  TileMatched =>
    LET col == region.x \div (matchPage.tileWidth * matchPage.scale)
        row == region.y \div (matchPage.tileHeight * matchPage.scale)
    IN  /\ col < matchPage.tilesAcross
        /\ row < matchPage.tilesDown
        /\ match.tileIndex = row * matchPage.tilesAcross + col

\* C2: a match for a numeric region is returned at a level only if region.x
\* is a multiple of tileWidth * scale and region.y a multiple of
\* tileHeight * scale of that level; a region whose top-left is no such
\* multiple at any level gets no match, whatever the size and size mode.
C2_MatchIsAligned ==
  /\ TileMatched =>
       /\ region.x % (matchPage.tileWidth * matchPage.scale) = 0
       /\ region.y % (matchPage.tileHeight * matchPage.scale) = 0
  /\ ( /\ pc # "idle" /\ region.ok /\ ~region.isFull /\ size.ok
       /\ \A i \in 1..Len(source.pages) :
            \/ region.x % (source.pages[i].tileWidth * source.pages[i].scale) # 0
            \/ region.y % (source.pages[i].tileHeight * source.pages[i].scale) # 0 )
     => ~match.found

\* C2 witness: a match at the second level for a region that does not start
\* at the image's origin
C2_Witness ==
  TileMatched /\ match.pageIdx = 2 /\ region.x > 0 /\ region.y > 0

\* a tile was served for a pixel region: a delivery path answered 200
TileServed ==
  path # {} /\ head.status = 200 /\ req.kind = "tile" /\ req.region.kind = "px"

\* C3 as claimed: a tile is served only if the w and h written in the URL
\* equal min(scaled tile size, remaining image extent from x, y) at the
\* matched level.
C3_WrittenRegionIsExact ==
  TileServed =>
    /\ req.region.w = Min(matchPage.tileWidth * matchPage.scale,
                          source.width - req.region.x)
    /\ req.region.h = Min(matchPage.tileHeight * matchPage.scale,
                          source.height - req.region.y)

\* C3 as amended: a tile is served only if the written w and h, clipped to
\* the image (min(w, width - x), min(h, height - y)), equal min(scaled tile
\* size, remaining image extent from x, y) at the matched level; a request
\* whose clipped w or h differs from that at every level is answered 400.
C3_ClippedRegionIsExact ==
  /\ TileServed =>
       /\ Min(req.region.w, source.width - req.region.x)
            = Min(matchPage.tileWidth * matchPage.scale, source.width - req.region.x)
       /\ Min(req.region.h, source.height - req.region.y)
            = Min(matchPage.tileHeight * matchPage.scale, source.height - req.region.y)
  /\ ( /\ pc # "idle" /\ region.ok /\ ~region.isFull /\ size.ok
       /\ \A i \in 1..Len(source.pages) :
            \/ Min(req.region.w, source.width - req.region.x)
                 # Min(source.pages[i].tileWidth * source.pages[i].scale,
                       source.width - req.region.x)
            \/ Min(req.region.h, source.height - req.region.y)
                 # Min(source.pages[i].tileHeight * source.pages[i].scale,
                       source.height - req.region.y) )
     => head.status = 400 /\ path = {}

\* C3 witness: a tile is served for a request written past the right edge
C3_Witness ==
  TileServed /\ req.region.x + req.region.w > source.width

\* C4: for a numeric-region match at a level of scale s, outWidth is
\* tileWidth unless region.x + tileWidth * s exceeds the image width, and then
\* ceil((width - region.x) / s); outHeight likewise; and the requested size
\* equals these on the dimensions the size mode constrains.
C4_EdgeOutputSize ==
  TileMatched =>
    LET s == matchPage.scale
        w == IF region.x + matchPage.tileWidth * s > source.width
             THEN (source.width - region.x + s - 1) \div s
             ELSE matchPage.tileWidth
        h == IF region.y + matchPage.tileHeight * s > source.height
             THEN (source.height - region.y + s - 1) \div s
             ELSE matchPage.tileHeight
    IN  /\ match.outWidth = w
        /\ match.outHeight = h
        /\ sizeMode \in {"w", "exact", "full"} => size.w = w
        /\ sizeMode \in {"h", "exact", "full"} => size.h = h

\* C4 witness: a right-edge tile of the second level whose remaining width
\* is odd, matched at the rounded-up output width
C4_Witness ==
  /\ TileMatched /\ matchPage.scale = 2
  /\ match.outWidth < matchPage.tileWidth
  /\ (source.width - region.x) % 2 = 1

\* the containers of the repository's matcher tests: an image 1000 x 1000
\* and an image 1024 x 1024 in tiles 256 x 256, the latter also with its
\* levels down to the one stored as a single tile 128 x 128
Image1000 ==
  BuildPyramid(LayOut(<<<<1000, 1000, JPEG>>>>, 256, 256, 10, NoTables, 1000))
Image1024 ==
  BuildPyramid(LayOut(<<<<1024, 1024, JPEG>>>>, 256, 256, 10, NoTables, 1000))
Image1024Levels ==
  BuildPyramid(LayOut(<<<<1024, 1024, JPEG>>, <<512, 512, JPEG>>, <<256, 256, JPEG>>,
                        <<128, 128, JPEG>>>>, 256, 256, 10, NoTables, 1000))

\* C4's example: region 768,0,232,256 at size 232,256 of the image 1000 wide
\* matches tile index 3 with outWidth 232
C4_Example ==
  LET m == findJpegTileMatch(Image1000, Region(768, 0, 232, 256, FALSE),
                             Size(232, 256), "exact")
  IN  m.found /\ m.tileIndex = 3 /\ m.outWidth = 232 /\ m.outHeight = 256

\* C4 with its example
C4_EdgeOutputSizeAndExample == C4_EdgeOutputSize /\ C4_Example

\* tile (row, col) of level i is interior: it lies in the level's tile grid
\* and its scaled footprint lies inside the image
Interior(i, row, col) ==
  LET page == source.pages[i]
  IN  /\ row < page.tilesDown /\ col < page.tilesAcross
      /\ (col + 1) * page.tileWidth * page.scale <= source.width
      /\ (row + 1) * page.tileHeight * page.scale <= source.height

\* the handled request asks for the footprint of tile (row, col) of level i
\* at the native tile size, both written out
AsksForTile(i, row, col) ==
  LET page == source.pages[i]
  IN  /\ pc # "idle" /\ req.kind = "tile" /\ region.ok /\ size.ok
      /\ req.region = RegionRaw("px", col * page.tileWidth * page.scale,
                                row * page.tileHeight * page.scale,
                                page.tileWidth * page.scale,
                                page.tileHeight * page.scale)
      /\ req.size = SizeRaw("wh", page.tileWidth, page.tileHeight)

\* the match is tile (row, col) of level i with its byte range
MatchIsTile(i, row, col) ==
  LET page == source.pages[i]
      index == row * page.tilesAcross + col
  IN  /\ match.found /\ match.pageIdx = i /\ match.tileIndex = index
      /\ match.offset = page.tileOffsets[index + 1]
      /\ match.byteCount = page.tileByteCounts[index + 1]

C5_Example ==
  findJpegTileMatch(Image1024, Region(256, 512, 256, 256, FALSE),
                    Size(256, 256), "exact").tileIndex = 9

FullHandled == pc # "idle" /\ region.ok /\ region.isFull /\ size.ok

\* a full-region match is a level stored as one tile whose width and height
\* equal the requested size on the dimensions the size mode constrains, with
\* tile index 0
FullMatchIsSingleTile ==
  FullMatched =>
    /\ matchPage.tilesAcross = 1 /\ matchPage.tilesDown = 1
    /\ sizeMode \in {"w", "exact", "full"} => size.w = matchPage.width
    /\ sizeMode \in {"h", "exact", "full"} => size.h = matchPage.height
    /\ match.tileIndex = 0

\* the requested size equals the dimensions of a level stored as several tiles
AsksForMultiTileLevel ==
  \E i \in 1..Len(source.pages) :
    /\ source.pages[i].tilesAcross * source.pages[i].tilesDown > 1
    /\ size.w = source.pages[i].width /\ size.h = source.pages[i].height

\* C6's example: of the image 1024 x 1024 with its levels, full at 128,128
\* matches tile index 0 and full at 1024,1024 does not match
C6_Example ==
  LET full == Region(0, 0, 1024, 1024, TRUE)
      ok == findJpegTileMatch(Image1024Levels, full, Size(128, 128), "exact")
  IN  /\ ok.found /\ ok.tileIndex = 0
      /\ ~findJpegTileMatch(Image1024Levels, full, Size(1024, 1024), "exact").found

Satisfies(j) ==
  IF region.isFull
  THEN FullPageMatches(source.pages[j], size, sizeMode)
  ELSE TilePageMatches(source, source.pages[j], region, size, sizeMode)

\* C7: the matched level satisfies the matching criteria and no level of
\* higher resolution (smaller index) does.
C7_FirstLevelWins ==
  (pc # "idle" /\ match.found) =>
    /\ Satisfies(match.pageIdx)
    /\ \A j \in 1..(match.pageIdx - 1) : ~Satisfies(j)

\* C7 witness: two levels satisfy the criteria and the first is the match
C7_Witness ==
  /\ pc # "idle" /\ match.found /\ match.pageIdx = 1
  /\ Len(source.pages) >= 2 /\ Satisfies(2)

\* --- the stream assembler, stated on the bytes

HasSoi(b) == Len(b) >= 2 /\ b[1] = XFF /\ b[2] = XD8
HasEoi(b) == Len(b) >= 2 /\ b[Len(b) - 1] = XFF /\ b[Len(b)] = XD9
DropEoi(b) == IF HasEoi(b) THEN SubSeq(b, 1, Len(b) - 2) ELSE b
\* the tile without a leading FFD8 and without a trailing FFD9
TileBody(t) ==
  SubSeq(t, IF HasSoi(t) THEN 3 ELSE 1, Len(t) - (IF HasEoi(t) THEN 2 ELSE 0))
\* (blob without its trailing FFD9) + (tile body) + FFD9
Spliced(blob, t) == DropEoi(blob) \o TileBody(t) \o EOI

\* the coding-table blob of the matched level
matchTables == matchPage.jpegTables

\* the assembled tiles the state holds: the buffer readJpegTileBuffer
\* returned, and the body of a stream that ended
Assembled ==
  (IF path = {"transcode"} /\ msg \in {"transcoded", "codec"} THEN {rawTile} ELSE {})
  \cup (IF out = "ended" THEN {body} ELSE {})

StreamHead == path = {"stream"} /\ head.status = 200

\* C9: on the direct streaming path the declared Content-Length is prefix
\* length + (byteCount - stripped start bytes - stripped end bytes) + suffix
\* length, no body byte is written without the head, and a stream that ends
\* has written exactly that many body bytes.
C9_ContentLength ==
  /\ StreamHead =>
       head.contentLength =
         Len(parts.prefix) + (match.byteCount - parts.skipStart - parts.skipEnd)
           + Len(parts.suffix)
  /\ (path = {"stream"} /\ body # <<>>) => head.status = 200
  /\ out = "ended" => (StreamHead /\ Len(body) = head.contentLength)

\* C9 witness: a stream ended for a tile of at most 2 bytes behind a prefix
C9_Witness ==
  out = "ended" /\ match.byteCount <= 2 /\ parts.prefix # <<>>

\* C10: for every match exactly one delivery function is called: streamJpegTile
\* when outWidth and outHeight equal the level's tile size, otherwise
\* sendTranscodedEdgeTile, which crops to left 0, top 0, outWidth x outHeight;
\* without a match none is called.
C10_OneDeliveryPath ==
  LET native == /\ match.outWidth = matchPage.tileWidth
                /\ match.outHeight = matchPage.tileHeight
  IN  /\ (pc # "idle" /\ ~match.found) => path = {}
      /\ (pc # "idle" /\ match.found) =>
           /\ path \subseteq (IF native THEN {"stream"} ELSE {"transcode"})
           /\ pc \in {"streaming", "done"} => path # {}
      /\ (path = {"transcode"} /\ msg \in {"transcoded", "codec"}) =>
           crop = [left |-> 0, top |-> 0,
                   width |-> match.outWidth, height |-> match.outHeight]

\* C10 witness: a bottom-edge tile of full width was transcoded
C10_Witness ==
  /\ pc = "done" /\ path = {"transcode"} /\ msg = "transcoded"
  /\ match.outWidth = matchPage.tileWidth /\ match.outHeight < matchPage.tileHeight

\* --- errors at the request boundary

\* the request reached parseRegion: a prefixed image request for the
\* catalogued identifier with rotation 0 and quality default.jpg
ReachedParsing ==
  /\ pc # "idle"
  /\ req.prefix # "" /\ req.kind = "tile" /\ req.id = "known"
  /\ req.rotation = "0" /\ req.quality \in {"default.jpg", "default.jpeg"}

\* parseRegion or parseSize refused the region or size string
Malformed == ReachedParsing /\ (~region.ok \/ ~size.ok)

\* C13: a request for a known identifier whose region or size string is
\* malformed (not of the grammar, zero width or height, origin outside the
\* image) is answered with a 4xx status and a message, never a 5xx status.
C13_MalformedIsClientError ==
  Malformed => (head.status \in 400..499 /\ msg # "")

\* C15: every failure raised while handling a request is recovered in the
\* handler: no exception escapes it, and a finished request has one response
\* head, also when the failure comes after the 200 head of a streamed tile.
C15_NoEscape ==
  /\ ~unhandled
  /\ pc = "done" => head.status # 0

\* C19: the version prefix is optional: a tile, info.json or bare-identifier
\* request for a known identifier without /iiif/2 or /iiif/3 is handled like
\* the prefixed request, not rejected.
C19_PrefixOptional ==
  (/\ pc # "idle"
   /\ req.prefix = "" /\ req.id = "known" /\ req.kind \in {"bare", "info", "tile"})
  => LET prefixed == Handle(source, [req EXCEPT !.prefix = "/iiif/3"])
     IN  /\ head.status # 404
         /\ (prefixed.status # 0 => head.status = prefixed.status)
         /\ (prefixed.status = 0 => pc = prefixed.next \/ path # {})

\* the request parsed and nothing matched it
Unsatisfiable == ReachedParsing /\ region.ok /\ size.ok /\ ~match.found

\* C20: a well-formed request (region and size accepted by the parsers,
\* rotation 0, default.jpg) for a known identifier that no tile or level
\* matches is answered with status 400, never 5xx and never an exception, and
\* the message for a full region differs from the one for a numeric region.
C20_UnsatisfiableIs400 ==
  Unsatisfiable =>
    /\ head.status = 400
    /\ ~unhandled
    /\ pc = "done" /\ path = {}
    /\ msg = IF region.isFull
             THEN "Unsupported full size for passthrough. Use one of info.json sizes that map to a single native tile."
             ELSE "Request not tile-aligned for passthrough. Use x,y,w,h with matching output w,h for a native tile level."

\* C20 witness: a full-region request no single-tile level answers
C20_Witness ==
  Unsatisfiable /\ region.isFull /\ head.status = 400 /\ Len(source.pages) = 2

\* --- failures of the tile stream

\* C16: when reading the tile byte range fails after the head was written,
\* the response is terminated and not left open for the declared bytes that
\* remain, and no suffix is written after the error; when the failure comes
\* before any byte is written, a 500 response without image bytes is sent.
C16_AbortedAfterError ==
  /\ (pc = "done" /\ out = "destroyed") => res # "open"
  /\ out = "destroyed" =>
       Len(body) = Len(parts.prefix) + (tilePos - tileStartOf(parts, match))
  /\ (path = {"stream"} /\ msg = "read") =>
       (head.status = 500 /\ body = <<>> /\ res = "ended")

\* --- capability document and catalog

\* the sizes a capability document lists
Advertised(doc) == {doc.sizes[i] : i \in DOMAIN doc.sizes}

\* findJpegTileMatch for the full region and the exact size w,h
FullExact(src, w, h) ==
  findJpegTileMatch(src, Region(0, 0, src.width, src.height, TRUE), Size(w, h), "exact")

\* C11: a size (w, h) is in the sizes list of the capability document (both
\* versions) if and only if findJpegTileMatch with the full region and the
\* exact size (w, h) returns a match.
C11_SizesAreEligible ==
  info # NoInfo =>
    \A w \in 1..(MaxTile + 1), h \in 1..(MaxTile + 1) :
      ([width |-> w, height |-> h] \in Advertised(info)) <=> FullExact(source, w, h).found

\* the request full/w,h for a size the capability document lists was handled
AsksAdvertised ==
  /\ ReachedParsing /\ pc = "done"
  /\ req.region.kind = "full" /\ req.size.kind = "wh"
  /\ [width |-> req.size.w, height |-> req.size.h] \in Advertised(infoJsonV3(source))

\* C12: for every (w, h) in the sizes list the request full/w,h is delivered
\* by the direct byte-streaming path, never by the transcode path.
C12_SizesStreamDirectly ==
  AsksAdvertised => path = {"stream"}

\* what loadSources does with a directory entry
Loadable(e) == e.isFile /\ Recognized(e.ext) /\ parseTiffPyramid(e.file).ok
Broken(e) == e.isFile /\ Recognized(e.ext) /\ ~parseTiffPyramid(e.file).ok

\* C14: a container file with a structural error is left out of the catalog
\* while every other recognized container of the directory is loaded; the
\* load does not abort.
C14_BadContainerExcluded ==
  /\ phase # "exited"
  /\ phase = "serving" =>
       \A i \in DOMAIN dir.entries :
         LET e == dir.entries[i]
         IN  /\ Loadable(e) => e.stem \in DOMAIN sources
             /\ (Broken(e) /\ \A j \in DOMAIN dir.entries :
                                 Loadable(dir.entries[j]) => dir.entries[j].stem # e.stem)
                  => e.stem \notin DOMAIN sources

\* levels by non-increasing width, ranked from 0, scale 2^rank, tile grid
\* by rounding up, image size that of rank 0
WellRanked(pyr) ==
  LET n == Len(pyr.pages)
  IN  /\ n >= 1
      /\ \A i \in 1..n :
           LET page == pyr.pages[i]
           IN  /\ page.level = i - 1
               /\ page.scale = 2 ^ (i - 1)
               /\ page.tilesAcross = (page.width + page.tileWidth - 1) \div page.tileWidth
               /\ page.tilesDown = (page.height + page.tileHeight - 1) \div page.tileHeight
               /\ i < n => page.width >= pyr.pages[i + 1].width
      /\ pyr.width = pyr.pages[1].width
      /\ pyr.height = pyr.pages[1].height

\* C18: in every Pyramid parseTiffPyramid builds the levels are ordered by
\* non-increasing width, the level at rank i has level = i and scale = 2^i,
\* tilesAcross = ceil(width/tileWidth), tilesDown = ceil(height/tileHeight),
\* the Pyramid's width and height are those of rank 0, and both capability
\* documents list scaleFactors 2^0 .. 2^(n-1) for the n levels.
C18_LevelsRanked ==
  /\ \A id \in DOMAIN sources : WellRanked(sources[id])
  /\ phase = "serving" /\ source # NoSource => WellRanked(source)
  /\ info # NoInfo =>
       /\ info.version \in {2, 3}
       /\ info.scaleFactors = [i \in 1..Len(source.pages) |-> 2 ^ (i - 1)]
       /\ info.width = source.pages[1].width /\ info.height = source.pages[1].height

\* C18 witness: the capability document of a container whose file holds the
\* smaller level first
C18_Witness ==
  /\ info # NoInfo /\ Len(source.pages) = 2
  /\ source.pages[1].width > source.pages[2].width
  /\ \E i \in DOMAIN dir.entries :
       LET e == dir.entries[i]
       IN  /\ e.stem = "known" /\ e.ext = ".tif" /\ Len(e.file.ifds) = 2
           /\ e.file.ifds[1].width < e.file.ifds[2].width

\* --- overlapping requests

\* the handler has finished and no file or codec operation failed
Completed(h) ==
  /\ h.pc = "done"
  /\ h.msg \notin {"read", "codec"} /\ h.out # "destroyed" /\ ~h.unhandled

\* what a handler sent: head, message, image bytes and, for a transcoded
\* tile, the input and crop rectangle of the codec
Response(h) ==
  [head |-> h.head, msg |-> h.msg, body |-> h.body, rawTile |-> h.rawTile,
   crop |-> h.crop]

\* the response to request r when it is handled alone and nothing fails
AloneResponse(src, data, r) ==
  LET o == Handle(src, r)
      whole == readJpegTileBuffer(src, data, o.match)
  IN  IF o.status # 0
        THEN [head |-> Head0(o.status), msg |-> o.msg, body |-> <<>>,
              rawTile |-> <<>>, crop |-> NoCrop]
      ELSE IF o.next = "transcode"
        THEN [head |-> Head0(200), msg |-> "transcoded", body |-> <<>>,
              rawTile |-> whole,
              crop |-> [left |-> 0, top |-> 0, width |-> o.match.outWidth,
                        height |-> o.match.outHeight]]
      ELSE [head |-> ImageHead(Len(whole)), msg |-> "", body |-> whole,
            rawTile |-> <<>>, crop |-> NoCrop]

\* the two handlers
Handlers == {HandlerState} \cup (IF peer = NoPeer THEN {} ELSE {peer})

C21_ExactRounding ==
  pc = "done" /\ phase = "unit" =>
    LET raw == req.size
    IN  CASE raw.kind = "full" -> size = Size(region.w, region.h)
          [] raw.kind = "wh" -> size = Size(raw.w, raw.h)
          [] raw.kind = "w" /\ raw.w >= 1 ->
               size = Size(raw.w, Max(1, Round(region.h * raw.w, region.w)))
          [] raw.kind = "h" /\ raw.h >= 1 ->
               size = Size(Max(1, Round(region.w * raw.h, region.h)), raw.h)
          [] OTHER -> ~size.ok

\* --- the catalog, entry by entry

\* the entries loadSources has gone through so far that are recognized
\* container files
Catalogued == {i \in 1..(dir.next - 1) : dir.entries[i].isFile /\ Recognized(dir.entries[i].ext)}
\* the first of them with the stem of entry i
FirstOfStem(i) ==
  CHOOSE j \in Catalogued :
    /\ dir.entries[j].stem = dir.entries[i].stem
    /\ \A k \in Catalogued : dir.entries[k].stem = dir.entries[i].stem => j <= k

\* C22: at every point of the load and after it, the identifiers of the
\* catalog are exactly the stems of the recognized container files gone
\* through (.tif, .tiff, .ptif in any letter case, files only), and each
\* identifier maps to the Pyramid of the first file with that stem in
\* directory-listing order: a later file never replaces the entry.
C22_FirstFileWins ==
  /\ DOMAIN sources = {dir.entries[i].stem : i \in Catalogued}
  /\ \A i \in Catalogued :
       sources[dir.entries[i].stem]
         = parseTiffPyramid(dir.entries[FirstOfStem(i)].file).pyramid
\* a catalog built from two recognized files of one stem and of different
\* content, the second spelled in another extension
C22_Witness ==
  /\ phase = "serving"
  /\ \E i, j \in Catalogued :
       /\ i < j
       /\ dir.entries[i].stem = dir.entries[j].stem
       /\ dir.entries[i].ext # dir.entries[j].ext
       /\ parseTiffPyramid(dir.entries[i].file).pyramid
            # parseTiffPyramid(dir.entries[j].file).pyramid
       /\ sources[dir.entries[j].stem] = parseTiffPyramid(dir.entries[i].file).pyramid

\* --- tile tables

\* C23: every Level of a built Pyramid has one tile offset per tile of its
\* grid and as many byte counts as offsets, and every match returned carries
\* a defined byte offset and a defined byte count.
C23_TablesComplete ==
  /\ phase = "serving" =>
       \A i \in DOMAIN source.pages :
         LET page == source.pages[i]
         IN  /\ Len(page.tileOffsets) = page.tilesAcross * page.tilesDown
             /\ Len(page.tileByteCounts) = Len(page.tileOffsets)
  /\ match.found => match.offset # Undefined /\ match.byteCount # Undefined

\* --- the directory traversal

\* the directories reachable from the first offset lie on a cycle and one
\* of them is pointed to twice
Cyclic ==
  /\ tiff.first = 1
  /\ tiff.dirs[1].tiled /\ tiff.dirs[2].tiled
  /\ tiff.dirs[1].subIfds = <<2, 2>> /\ tiff.dirs[1].nextOffset = 1
  /\ tiff.dirs[2].nextOffset = 1

\* C24: the traversal calls parseIfd at most once on each offset and never
\* on offset 0, each directory contributes at most one candidate level, and
\* the traversal ends for every file, cyclic or not.
C24_TraversalTerminates ==
  /\ [](\A o \in DOMAIN parses : parses[o] <= 1)
  /\ [](0 \in DOMAIN parses => parses[0] = 0)
  /\ [](\A o \in DOMAIN parses :
         Cardinality({i \in DOMAIN pageIfds : pageIfds[i] = LevelAt(o)}) <= parses[o])
  /\ <>(pc = "done")
\* a cyclic file traversed to the end, both directories found once
C24_Witness ==
  /\ Cyclic
  /\ pc = "done" /\ msg = ""
  /\ visited = {1, 2}
  /\ Len(pageIfds) = 2
  /\ source.width = 2

\* --- the order of the streamed body

\* C25: on the direct streaming path no body byte precedes the head; while
\* the tile range is being read the body is the whole prefix followed by the
\* bytes of the range read so far, without the suffix; and unless the read
\* fails, the stream is ended, once, with the body prefix + whole tile range
\* + suffix and nothing after it.
C25_StreamOrder ==
  /\ (path = {"stream"} /\ body # <<>>) => head.status = 200
  /\ StreamHead =>
       LET start == tileStartOf(parts, match)
           length == tileLengthOf(parts, match)
       IN  /\ pc = "streaming" =>
                /\ out = "open"
                /\ body = parts.prefix \o readExactly(tile, match.offset, start, tilePos - start)
           /\ (pc = "done" /\ out # "destroyed") =>
                /\ out = "ended"
                /\ body = parts.prefix \o readExactly(tile, match.offset, start, length)
                            \o parts.suffix

\* --- the decode-resize server

\* the number of pages selectPyramidLevel takes a record to have
PagesOf(rec) == Max(1, rec.pages)

\* C26: for every record of width and height at least 1, every region inside
\* the image and every positive size, the plan's page lies in 0..pages - 1
\* and its extract rectangle lies inside that page: left >= 0, top >= 0,
\* width >= 1, height >= 1, left + width <= max(1, floor(width / 2^page)),
\* top + height <= max(1, floor(height / 2^page)).
C26_ExtractInsidePage ==
  attempts # <<>> =>
    /\ plan.page >= 0 /\ plan.page <= PagesOf(record) - 1
    /\ plan.extract.left >= 0 /\ plan.extract.top >= 0
    /\ plan.extract.width >= 1 /\ plan.extract.height >= 1
    /\ plan.extract.left + plan.extract.width
         <= Max(1, record.width \div Pow2(plan.page))
    /\ plan.extract.top + plan.extract.height
         <= Max(1, record.height \div Pow2(plan.page))
\* a plan on a deeper page of a pyramid for a region that reaches the right
\* border of an image of odd width, where the rounded-up right edge is cut
\* back to the page
C26_Witness ==
  /\ attempts # <<>>
  /\ plan.page >= 1 /\ plan.page = PagesOf(record) - 1
  /\ region.x > 0 /\ region.x + region.w = record.width
  /\ plan.extract.left + plan.extract.width = record.width \div Pow2(plan.page)
  /\ Ceil(region.x + region.w, Pow2(plan.page)) > record.width \div Pow2(plan.page)

\* C27: renderImage calls render at most twice: first with a page selected;
\* a second time, without a page option, only after the first call failed;
\* a first call that succeeds is returned; a failure of the second call is
\* the failure of renderImage.
C27_AtMostTwoAttempts ==
  /\ Len(attempts) <= 2
  /\ (pc = "render") = (attempts = <<>>)
  /\ Len(attempts) >= 1 =>
       /\ attempts[1].page # Undefined /\ attempts[1].page = plan.page
       /\ attempts[1].ok => (Len(attempts) = 1 /\ pc = "done" /\ rendered = Returned)
       /\ ~attempts[1].ok => pc \in {"fallback", "done"}
  /\ (pc = "fallback") = (Len(attempts) = 1 /\ ~attempts[1].ok)
  /\ Len(attempts) = 2 =>
       /\ ~attempts[1].ok
       /\ attempts[2].page = Undefined
       /\ pc = "done"
       /\ rendered = IF attempts[2].ok THEN Returned ELSE Rejected
\* the second call failed too and renderImage rejected
C27_Witness ==
  /\ Len(attempts) = 2 /\ ~attempts[2].ok
  /\ rendered.status = "thrown"
  /\ plan.page > 0

C30_StartMarkerKept ==
  \A a \in Assembled :
    (matchTables.present /\ Len(matchTables.bytes) >= 2 /\ HasSoi(tile))
      => HasSoi(a)

\* --- the directory of the file, read off its bytes

\* the number of records of the first directory and record i (from 0) of it
RecordCount ==
  IF headerBigTiff(fd) THEN readU64(fd, HeaderSize, headerLe(fd)).lo
  ELSE readU16(fd, HeaderSize, headerLe(fd))
RecordBase(i) ==
  HeaderSize + (IF headerBigTiff(fd) THEN 8 + i * 20 ELSE 2 + i * 12)
RecordTag(i) == readU16(fd, RecordBase(i), headerLe(fd))
RecordType(i) == readU16(fd, RecordBase(i) + 2, headerLe(fd))
RecordValues(i) ==
  IF headerBigTiff(fd) THEN readU64(fd, RecordBase(i) + 4, headerLe(fd))
  ELSE readU32(fd, RecordBase(i) + 4, headerLe(fd))
RecordSlot(i) ==
  IF headerBigTiff(fd) THEN Subarray(fd, RecordBase(i) + 12, RecordBase(i) + 20)
  ELSE Subarray(fd, RecordBase(i) + 8, RecordBase(i) + 12)
\* the value of record i has count * size of type bytes
RecordBytes(i) == RecordValues(i).lo * TYPE_SIZES[RecordType(i)]
\* the value of record i fits the slot
RecordFits(i) ==
  /\ RecordType(i) \in DOMAIN TYPE_SIZES
  /\ RecordBytes(i) <= Len(RecordSlot(i))
\* record i is the one the map holds for its tag: the last with that tag
RecordKept(i) ==
  \A k \in 0..(RecordCount - 1) : RecordTag(k) = RecordTag(i) => k <= i
\* the slot of record i taken as a file offset, in the file's byte order
RecordOffset(i) ==
  IF headerBigTiff(fd) THEN readU64(RecordSlot(i), 0, headerLe(fd))
  ELSE readU32(RecordSlot(i), 0, headerLe(fd))

\* C28: when the value of every record of a directory fits its slot (4
\* bytes, 8 in the 64-bit variant), parsing the directory succeeds whatever
\* the slot bytes are; a value that fits is returned as the leading bytes
\* of the record's own slot, and only a value that does not fit is read from
\* the file at the slot taken as an offset.
C28_InlineValuesFromSlot ==
  /\ (pc # "idle" /\ \A i \in 0..(RecordCount - 1) : RecordFits(i))
       => parsedIfd.status = "returned"
  /\ \A i \in 0..(RecordCount - 1) :
       (field.status = "returned" /\ field.tag = RecordTag(i) /\ RecordKept(i))
         => IF RecordFits(i)
            THEN field.raw = Subarray(RecordSlot(i), 0, RecordBytes(i))
            ELSE /\ CanRead(fd, RecordOffset(i), FromInt(RecordBytes(i)))
                 /\ field.raw = ReadBytes(fd, RecordOffset(i), FromInt(RecordBytes(i)))

====
